---- MODULE Spec2Model ----
(***************************************************************************)
(* x402 facilitator: the verification-and-settlement engine.               *)
(*                                                                         *)
(* Handlers modelled: verifyPayment (routes/verify.ts, the x402 v2         *)
(* snapshot) and settlePayment (routes/settle.ts) with settleSolanaPayment *)
(* (solana/settle.ts).  Every awaited external call (signature recovery,   *)
(* RPC read, transaction submission, confirmation wait) is one step of the *)
(* handler; the code between two awaits runs inside the step that follows  *)
(* the earlier await.  The asset contracts (ERC-20 with ERC-2612 permit,   *)
(* SPL token with a delegate) are the environment the handlers call.       *)
(*                                                                         *)
(* Records list their fields in one fixed order throughout the module, the *)
(* order in which the field names first appear in it; the order of fields  *)
(* in a record carries no meaning.                                         *)
(***************************************************************************)
EXTENDS Integers, Sequences, FiniteSets, TLC

VARIABLES
    cfg,        \* configuration object (config.ts), fixed after start-up
    realMode,   \* process.env.ENABLE_REAL_SETTLEMENT === 'true'
    now,        \* wall clock / block time, Unix seconds
    chain,      \* per network: asset contract state and facilitator account
    nextTx,     \* next fresh transaction hash
    calls,      \* number of handler invocations started so far
    pc,         \* per handler instance: position in the handler
    req,        \* per handler instance: req.body
    loc,        \* per handler instance: local variables of the handler
    log,        \* per handler instance: external calls issued so far
    resp,       \* per handler instance: the response sent (res.json)
    portState,  \* per TCP port: what a listen on it meets (operating system)
    server,     \* startServer: the port of the latest listen and its outcome
    keyCache    \* apiKey middleware: apiKey -> { valid, expiresAt }

vars == <<cfg, realMode, now, chain, nextTx, calls, pc, req, loc, log, resp,
          portState, server, keyCache>>

(***************************************************************************)
(* Bounds of the model.                                                    *)
(***************************************************************************)
MaxCalls == 2       \* handler invocations in one behaviour
MaxNow   == 2       \* clock values 0..MaxNow
MaxValue == 2       \* monetary quantities 1..MaxValue
MaxBal   == 2       \* initial payer balance 0..MaxBal
MaxPort  == 4       \* TCP ports 1..MaxPort (65535 in the program)

Procs == {"h1", "h2"}      \* concurrent handler instances (independent requests)

(***************************************************************************)
(* Strings whose content the code parses are sequences of characters.      *)
(***************************************************************************)
DigitChars == <<"0", "1", "2", "3", "4", "5", "6", "7", "8", "9">>

IsDigit(c) == \E i \in 1..10 : DigitChars[i] = c

DigitVal(c) == (CHOOSE i \in 1..10 : DigitChars[i] = c) - 1

\* parseInt(s, 10) for s matching \d+
RECURSIVE ParseDec(_)
ParseDec(s) ==
    IF Len(s) = 0 THEN 0
    ELSE 10 * ParseDec(SubSeq(s, 1, Len(s) - 1)) + DigitVal(s[Len(s)])

StartsWith(s, prefix) ==
    /\ Len(s) >= Len(prefix)
    /\ SubSeq(s, 1, Len(prefix)) = prefix

\* accepted.network missing from the payload (JS undefined)
NoNetwork == <<"undefined">>

Eip155Prefix == <<"e", "i", "p", "1", "5", "5", ":">>
SolanaPrefix == <<"s", "o", "l", "a", "n", "a", ":">>

NetBase        == Eip155Prefix \o <<"8", "4", "5", "3">>
NetBaseSepolia == Eip155Prefix \o <<"8", "4", "5", "3", "2">>
NetRadius      == Eip155Prefix \o <<"7", "2", "3">>
NetRadiusTest  == Eip155Prefix \o <<"7", "2", "3", "4", "4">>
NetUnknownEvm  == Eip155Prefix \o <<"9", "9", "9", "9", "9", "9">>
NetBarePrefix  == Eip155Prefix
NetNonNumeric  == Eip155Prefix \o <<"a", "b", "c">>
NetBareId      == <<"8", "4", "5", "3">>
NetLegacyBase  == <<"b", "a", "s", "e">>
NetEmpty       == <<>>
NetSolana      == SolanaPrefix \o
    <<"5", "e", "y", "k", "t", "4", "U", "s", "F", "v", "8", "P", "8", "N", "J", "d", "T", "R", "E", "p", "Y", "1", "v", "z", "q", "K", "q", "Z", "K", "v", "d", "p">>
NetSolanaOther == SolanaPrefix \o <<"d", "e", "v">>

\* the literal the Solana settle path reports as network
SolanaNetworkLiteral == NetSolana

\* chain ids of config.ts
BaseChainId          == 8453
BaseSepoliaChainId   == 84532
RadiusChainId        == 723
RadiusTestnetChainId == 72344

NoChain == 0 - 1

\* mutant: the `eip155:` prefix is optional
parseEvmChainId_AcceptsBareId(network) ==
    LET bare == IF StartsWith(network, Eip155Prefix)
                THEN SubSeq(network, Len(Eip155Prefix) + 1, Len(network))
                ELSE network
    IN  IF Len(bare) >= 1 /\ \A i \in 1..Len(bare) : IsDigit(bare[i])
        THEN ParseDec(bare)
        ELSE NoChain

\* network.match(/^eip155:(\d+)$/) ? parseInt(match[1], 10) : null
\* (network.match on undefined raises a TypeError: see NetworkRaises)
parseEvmChainId(network) ==
    LET rest == SubSeq(network, Len(Eip155Prefix) + 1, Len(network))
    IN  IF /\ StartsWith(network, Eip155Prefix)
           /\ Len(rest) >= 1
           /\ \A i \in 1..Len(rest) : IsDigit(rest[i])
        THEN ParseDec(rest)
        ELSE NoChain

NetworkRaises(network) == network = NoNetwork

EvmLabels == {"Base Mainnet", "Base Sepolia", "Radius Mainnet", "Radius Testnet"}
NoLabel   == "none"
Solana    == "Solana"
Labels    == EvmLabels \cup {Solana}

\* the if-chain of resolveEvmNetwork; the label names the descriptor returned
resolveEvmNetwork(network) ==
    LET chainId == parseEvmChainId(network)
    IN  IF chainId = NoChain THEN NoLabel
        ELSE IF chainId = BaseChainId THEN "Base Mainnet"
        ELSE IF chainId = BaseSepoliaChainId THEN "Base Sepolia"
        ELSE IF chainId = RadiusChainId THEN "Radius Mainnet"
        ELSE IF chainId = RadiusTestnetChainId THEN "Radius Testnet"
        ELSE NoLabel

ChainIdOf(label) ==
    CASE label = "Base Mainnet"   -> BaseChainId
      [] label = "Base Sepolia"   -> BaseSepoliaChainId
      [] label = "Radius Mainnet" -> RadiusChainId
      [] label = "Radius Testnet" -> RadiusTestnetChainId
      [] OTHER                    -> NoChain

(***************************************************************************)
(* Addresses, quantities, optional fields.                                 *)
(***************************************************************************)
Payer       == "payer"
Merchant    == "merchant"
Facilitator == "facilitator"     \* account of the facilitator's private key
Stranger    == "stranger"
NoAddr      == ""                \* missing / unparsable address
Addrs       == {Payer, Merchant, Facilitator, Stranger}

Absent  == <<>>                  \* an optional field that is not there
Some(v) == <<v>>
Has(f)  == Len(f) = 1
Val(f)  == f[1]

TokenOf(label) == <<"token", label>>

\* name/version of the deployed asset's own EIP-712 domain
TokenName    == "Stable Coin"
TokenVersion == "1"

TokenDomain(label) ==
    [chainId |-> ChainIdOf(label), name |-> TokenName,
     version |-> TokenVersion, verifyingContract |-> TokenOf(label)]

PermitMessage(owner, spender, value, nonce, deadline) ==
    [owner |-> owner, spender |-> spender, value |-> value,
     nonce |-> nonce, deadline |-> deadline]

\* A signature is what was signed and by whom; "hex65" is a well-formed
\* 65-byte compact signature, "short" a hex string too short to slice into
\* r,s,v, "null" a null signature field.
Signature(form, signer, domain, message) ==
    [form |-> form, signer |-> signer, domain |-> domain, message |-> message]

SignPermit(signer, domain, message) == Signature("hex65", signer, domain, message)

BlankDomain  == [chainId |-> NoChain, name |-> "", version |-> "",
                 verifyingContract |-> TokenOf(NoLabel)]
BlankMessage == PermitMessage(NoAddr, NoAddr, 0, 0, 0)
ShortSig     == Signature("short", NoAddr, BlankDomain, BlankMessage)
NullSig      == Signature("null", NoAddr, BlankDomain, BlankMessage)

(***************************************************************************)
(* The asset contracts and the facilitator's account, per network.         *)
(***************************************************************************)
NoHash == 0 - 0

Tx(hash, nonce, fn, owner, spender, to, value, deadline, sig) ==
    [owner |-> owner, spender |-> spender, value |-> value, nonce |-> nonce,
     deadline |-> deadline, hash |-> hash, fn |-> fn, to |-> to,
     sig |-> sig]

\* mutant: an asset whose permit does not check the owner's permit nonce
PermitOk_NoReplayProtection(c, label, t, time) ==
    /\ time <= t.deadline
    /\ t.sig.form = "hex65"
    /\ t.sig.signer = t.owner
    /\ t.sig.domain = TokenDomain(label)
    /\ \E n \in 0..c.permitNonce[t.owner] :
         t.sig.message = PermitMessage(t.owner, t.spender, t.value, n, t.deadline)

\* ERC-2612 permit(owner, spender, value, deadline, v, r, s) would not revert
PermitOk(c, label, t, time) ==
    /\ time <= t.deadline
    /\ t.sig.form = "hex65"
    /\ t.sig.signer = t.owner
    /\ t.sig.domain = TokenDomain(label)
    /\ t.sig.message =
         PermitMessage(t.owner, t.spender, t.value, c.permitNonce[t.owner], t.deadline)

\* ERC-20 transferFrom(from, to, amount) sent by the facilitator would not revert
TransferFromOk(c, t) ==
    /\ t.to \in Addrs
    /\ c.allowance[t.owner][Facilitator] >= t.value
    /\ c.bal[t.owner] >= t.value

CallOk(c, label, t, time) ==
    IF t.fn = "permit" THEN PermitOk(c, label, t, time) ELSE TransferFromOk(c, t)

ApplyPermit(c, t) ==
    [c EXCEPT !.permitNonce[t.owner] = @ + 1,
              !.allowance[t.owner][t.spender] = t.value]

\* the asset contract's own accounting: debit owner, credit to
ApplyTransfer(c, owner, to, value) ==
    LET debited == [c.bal EXCEPT ![owner] = @ - value]
    IN  [c EXCEPT !.bal = [debited EXCEPT ![to] = @ + value],
                  !.allowance[owner][Facilitator] = @ - value]

ApplyCall(c, t) ==
    IF t.fn = "permit" THEN ApplyPermit(c, t)
    ELSE ApplyTransfer(c, t.owner, t.to, t.value)

\* getTransactionCount({address, blockTag: 'pending'})
PendingCount(c) == c.mined + Cardinality(c.pool)

HasReceipt(c, hash) == \E r \in c.receipts : r.hash = hash

(***************************************************************************)
(* Requests (req.body) and responses (res.status(..).json(..)).            *)
(***************************************************************************)
Authorization(from, to, value, validBefore, nonce) ==
    [value |-> value, nonce |-> nonce, to |-> to,
     from |-> from, validBefore |-> validBefore]

\* authorization.validBefore is a number of seconds, or one of two values
\* that Date cannot represent: the field is missing (Number(undefined) is
\* NaN), or it lies above 8 640 000 000 000 s, as 2^256 - 1 does
NoDeadline         == 0 - 1
DeadlineBeyondDate == 2000000000

\* new Date(Number(deadline) * 1000).toISOString() throws a RangeError
InvalidDate(deadline) == deadline \in {NoDeadline, DeadlineBeyondDate}

\* paymentPayload.payload: the EVM shape {signature, authorization} and the
\* Solana shape {from, to, amount, ...} in one record; fields of the other
\* shape are missing (Absent / NoAddr).
EvmPayload(authorization, signature) ==
    [nonce |-> Absent, deadline |-> Absent,
     to |-> NoAddr, from |-> NoAddr, authorization |-> authorization,
     signature |-> signature, amount |-> Absent]

\* the message of a delegated-transfer intent:
\* `from:{from}|to:{to}|amount:{amount}|nonce:{nonce}|deadline:{deadline}`
IntentMessage(from, to, amount, nonce, deadline) ==
    <<"from:", from, "|to:", to, "|amount:", amount, "|nonce:", nonce,
      "|deadline:", deadline>>

\* {from, to, amount, nonce, deadline, signature}; a detached Ed25519
\* signature of `signer` over `message` is
\* Signature("ed25519", signer, BlankDomain, message)
SolanaIntent(from, to, amount, nonce, deadline, signature) ==
    [nonce |-> nonce, deadline |-> deadline,
     to |-> to, from |-> from, authorization |-> Absent,
     signature |-> signature, amount |-> amount]

\* the intent `from` signs for a transfer of `amount` to `to`, good until MaxNow
SolanaPayload(from, to, amount) ==
    SolanaIntent(from, to, amount, Some(0), Some(MaxNow),
                 Signature("ed25519", from, BlankDomain,
                           IntentMessage(from, to, amount, Some(0), Some(MaxNow))))

Requirements(amount, maxAmountRequired, payTo, name, version) ==
    [amount |-> amount, maxAmountRequired |-> maxAmountRequired,
     payTo |-> payTo, present |-> TRUE,
     extra |-> [name |-> name, version |-> version]]

\* a request body without paymentRequirements
NoRequirements ==
    [amount |-> Absent, maxAmountRequired |-> Absent,
     payTo |-> NoAddr, present |-> FALSE,
     extra |-> [name |-> Absent, version |-> Absent]]

Request(hasPayload, scheme, network, payload, requirements) ==
    [hasPayload |-> hasPayload,
     payload |-> payload,
     accepted |-> [network |-> network, scheme |-> scheme],
     paymentRequirements |-> requirements]

Reason(text, arg) == [text |-> text, arg |-> arg]
NoReason   == Reason("<absent>", <<>>)      \* field not present in the body
NullReason == Reason("<null>", <<>>)        \* invalidReason: null

Unknown == "unknown"

\* transaction field: '' / a hash returned by the chain / a fabricated hash
TxEmpty      == [hash |-> NoHash, kind |-> "empty"]
TxReal(h)    == [hash |-> h, kind |-> "chain"]
TxSimulated  == [hash |-> NoHash, kind |-> "simulated"]

NoResponse ==
    [network |-> <<>>, op |-> "none", status |-> 0, ok |-> FALSE,
     payer |-> Unknown, transaction |-> TxEmpty, reason |-> NoReason]

\* {success, payer, transaction, network, errorReason?}
SettleResponse(status, success, payer, transaction, network, errorReason) ==
    [network |-> network, op |-> "settle", status |-> status, ok |-> success,
     payer |-> payer, transaction |-> transaction, reason |-> errorReason]

\* {isValid, payer, invalidReason}
VerifyResponse(status, isValid, payer, invalidReason) ==
    [network |-> <<>>, op |-> "verify", status |-> status, ok |-> isValid,
     payer |-> payer, transaction |-> TxEmpty, reason |-> invalidReason]

\* x || 'unknown'
OrUnknown(addr) == IF addr = NoAddr THEN Unknown ELSE addr
NetOrUnknown(network) ==
    IF network = NoNetwork \/ network = <<>> THEN <<Unknown>> ELSE network

\* paymentPayload.payload?.authorization?.from || 'unknown'
AuthFromOrUnknown(r) ==
    IF Has(r.payload.authorization)
    THEN OrUnknown(Val(r.payload.authorization).from)
    ELSE Unknown

\* one entry of the record of external calls a handler has issued
Call(name, ok, nonce, dest, hash) ==
    [nonce |-> nonce, hash |-> hash, ok |-> ok, dest |-> dest, call |-> name]

NoNonce == 0 - 1

NoLocals ==
    [label |-> NoLabel, pendingNonce |-> NoNonce,
     permitHash |-> NoHash, transferHash |-> NoHash]

(***************************************************************************)
(* settlePayment: the code that runs before the first awaited call.        *)
(***************************************************************************)
\* mutant: on an error the handler falls back to the simulated path
SettleCatch_FallsBackToSimulated(r, message) ==
    SettleResponse(200, TRUE, AuthFromOrUnknown(r), TxSimulated,
                   NetOrUnknown(r.accepted.network), NoReason)

\* mutant: the error leaves settlePayment and nothing is sent
SettleCatch_Escapes(r, message) == NoResponse

\* catch block of settlePayment: status 200, success false, error.message
SettleCatch(r, message) ==
    SettleResponse(200, FALSE, AuthFromOrUnknown(r), TxEmpty,
                   NetOrUnknown(r.accepted.network), Reason(message, <<>>))

\* mutant: settleSolanaPayment lets the error reach settlePayment
SolanaCatch_Rethrows(r, message) == SettleCatch(r, message)

\* catch block of settleSolanaPayment, returned through res.json(result)
SolanaCatch(r, message) ==
    SettleResponse(200, FALSE, OrUnknown(r.payload.from), TxEmpty,
                   SolanaNetworkLiteral, Reason(message, <<>>))

\* const useRealSettlement = process.env.ENABLE_REAL_SETTLEMENT === 'true'
useRealSettlement(envSwitch) == envSwitch

\* const recipient = paymentRequirements.payTo
SettleRecipient(r) == r.paymentRequirements.payTo

\* new PublicKey(to): destination of the SPL transfer
SolanaDestination(r) == r.payload.to

\* mutant: transferFrom reuses the permit's nonce
TransferTxNonce_Reused(pendingNonce) == pendingNonce

\* nonce: pendingNonce  /  nonce: pendingNonce + 1
PermitTxNonce(pendingNonce)   == pendingNonce
TransferTxNonce(pendingNonce) == pendingNonce + 1

Goto(next, label) == [resp |-> NoResponse, label |-> label, next |-> next]
Reply(response)   == [resp |-> response, label |-> NoLabel, next |-> "done"]

\* settleSolanaPayment up to `await connection.getLatestBlockhash()`
SolanaEntry(r, c) ==
    IF c.privateKey[Solana] = ""
    THEN Reply(SolanaCatch(r, "SOLANA_FACILITATOR_PRIVATE_KEY not configured"))
    ELSE IF r.payload.from = NoAddr \/ SolanaDestination(r) = NoAddr
    THEN Reply(SolanaCatch(r, "Invalid public key input"))
    ELSE IF ~Has(r.payload.amount)
    THEN Reply(SolanaCatch(r, "Cannot convert undefined to a BigInt"))
    ELSE Goto("sol_blockhash", Solana)

\* mutant: the authorization is looked for before the network is resolved
SettleEntry_AuthorizationFirst(r, c) ==
    LET network == r.accepted.network
        scheme  == r.accepted.scheme
        label   == resolveEvmNetwork(network)
    IN  IF ~r.hasPayload
        THEN Reply(SettleResponse(400, FALSE, Unknown, TxEmpty, <<Unknown>>,
                                  Reason("Missing paymentPayload", <<>>)))
        ELSE IF scheme # "exact"
        THEN Reply(SettleResponse(200, FALSE, AuthFromOrUnknown(r), TxEmpty,
                                  NetOrUnknown(network),
                                  Reason("Unsupported scheme: ", <<scheme>>)))
        ELSE IF network # NoNetwork /\ StartsWith(network, SolanaPrefix)
        THEN SolanaEntry(r, c)
        ELSE IF ~Has(r.payload.authorization)
        THEN Reply(SettleResponse(200, FALSE, Unknown, TxEmpty, network,
                                  Reason("Missing authorization data in payload", <<>>)))
        ELSE IF NetworkRaises(network)
        THEN Reply(SettleCatch(r, "Cannot read properties of undefined (reading 'match')"))
        ELSE IF label = NoLabel
        THEN Reply(SettleResponse(200, FALSE, AuthFromOrUnknown(r), TxEmpty,
                                  NetOrUnknown(network),
                                  Reason("Unknown network: ", network)))
        ELSE IF ~r.paymentRequirements.present
        THEN Reply(SettleCatch(r, "Cannot read properties of undefined (reading 'payTo')"))
        ELSE IF r.payload.signature.form = "null"
        THEN Reply(SettleCatch(r, "Cannot read properties of null (reading 'slice')"))
        ELSE IF InvalidDate(Val(r.payload.authorization).validBefore)
        THEN Reply(SettleCatch(r, "Invalid time value"))
        ELSE IF c.privateKey[label] = ""
        THEN Reply(SettleCatch(r, "Facilitator private key not configured for " \o label
                                      \o ". Set the appropriate env var in .env."))
        ELSE Goto("s_nonce", label)

\* settlePayment from its first line to `await publicClient.getTransactionCount`
SettleEntry(r, c) ==
    LET network == r.accepted.network
        scheme  == r.accepted.scheme
        label   == resolveEvmNetwork(network)
    IN  IF ~r.hasPayload
        THEN Reply(SettleResponse(400, FALSE, Unknown, TxEmpty, <<Unknown>>,
                                  Reason("Missing paymentPayload", <<>>)))
        ELSE IF scheme # "exact"
        THEN Reply(SettleResponse(200, FALSE, AuthFromOrUnknown(r), TxEmpty,
                                  NetOrUnknown(network),
                                  Reason("Unsupported scheme: ", <<scheme>>)))
        ELSE IF network # NoNetwork /\ StartsWith(network, SolanaPrefix)
        THEN SolanaEntry(r, c)
        ELSE IF NetworkRaises(network)
        THEN Reply(SettleCatch(r, "Cannot read properties of undefined (reading 'match')"))
        ELSE IF label = NoLabel
        THEN Reply(SettleResponse(200, FALSE, AuthFromOrUnknown(r), TxEmpty,
                                  NetOrUnknown(network),
                                  Reason("Unknown network: ", network)))
        ELSE IF ~Has(r.payload.authorization)
        THEN Reply(SettleResponse(200, FALSE, Unknown, TxEmpty, network,
                                  Reason("Missing authorization data in payload", <<>>)))
        ELSE IF ~r.paymentRequirements.present
        THEN Reply(SettleCatch(r, "Cannot read properties of undefined (reading 'payTo')"))
        ELSE IF r.payload.signature.form = "null"
        THEN Reply(SettleCatch(r, "Cannot read properties of null (reading 'slice')"))
        ELSE IF InvalidDate(Val(r.payload.authorization).validBefore)
        THEN Reply(SettleCatch(r, "Invalid time value"))
        ELSE IF c.privateKey[label] = ""
        THEN Reply(SettleCatch(r, "Facilitator private key not configured for " \o label
                                      \o ". Set the appropriate env var in .env."))
        ELSE Goto("s_nonce", label)

(***************************************************************************)
(* Inputs of settle.                                                       *)
(***************************************************************************)
\* the plain authorization, and authorizations differing from it in value
\* and permit nonce, in the spender, or in the deadline
Authorizations ==
    { Authorization(Payer, Facilitator, v, MaxNow, n) : v \in 1..MaxValue, n \in 0..1 }
    \cup { Authorization(Payer, Stranger, 1, MaxNow, 0) }
    \cup { Authorization(Payer, Facilitator, 1, d, 0) : d \in 0..MaxNow }

PlainAuthorization == Authorization(Payer, Facilitator, 1, MaxNow, 0)

\* the permit a client signs for authorization a on the network labelled l
GoodSig(a, l) ==
    SignPermit(a.from, TokenDomain(l),
               PermitMessage(a.from, a.to, a.value, a.nonce, a.validBefore))

\* the same permit signed by somebody who is not the owner
ForgedSig(a, l) ==
    SignPermit(Stranger, TokenDomain(l),
               PermitMessage(a.from, a.to, a.value, a.nonce, a.validBefore))

SigsFor(a, l) ==
    IF a = PlainAuthorization
    THEN {GoodSig(a, l), ForgedSig(a, l), ShortSig, NullSig}
    ELSE {GoodSig(a, l)}

EvmPayloads(l) ==
    UNION { { EvmPayload(Some(a), sg) : sg \in SigsFor(a, l) } : a \in Authorizations }
    \cup {EvmPayload(Absent, NullSig)}

\* a well-formed payload and a payload without authorization
SamplePayloads(l) ==
    { EvmPayload(Some(a), GoodSig(a, l)) :
        a \in {PlainAuthorization} }
    \cup {EvmPayload(Absent, NullSig)}

SolanaPayloads ==
    { SolanaPayload(Payer, t, Some(v)) : t \in {Merchant, Facilitator}, v \in 1..MaxValue }
    \cup { SolanaPayload(NoAddr, Merchant, Some(1)),
            SolanaPayload(Payer, NoAddr, Some(1)),
            SolanaPayload(Payer, Merchant, Absent) }

SettleRequirements ==
    { Requirements(Some(1), Absent, payTo, Some(TokenName), Some(TokenVersion)) :
        payTo \in {Merchant, Stranger} }

SettleRequests ==
    { Request(TRUE, "exact", NetBase, pl, rq) :
        pl \in EvmPayloads("Base Mainnet"), rq \in SettleRequirements }
    \cup { Request(TRUE, sc, net, pl, rq) :
             sc \in {"exact", "subscribe"},
             net \in {NetBase, NetUnknownEvm, NetLegacyBase, NoNetwork},
             pl \in SamplePayloads("Base Mainnet"),
             rq \in {Requirements(Some(1), Absent, Merchant, Some(TokenName),
                                  Some(TokenVersion))} }
    \cup { Request(TRUE, "exact", NetSolana, pl, rq) :
             pl \in SolanaPayloads, rq \in SettleRequirements }
    \cup { Request(TRUE, "exact", NetSolanaOther,
                   SolanaPayload(Payer, Merchant, Some(1)),
                   Requirements(Some(1), Absent, Merchant, Some(TokenName),
                                Some(TokenVersion))) }
    \cup { Request(TRUE, "exact", NetBase,
                   EvmPayload(Some(Authorization(NoAddr, Facilitator, 1, MaxNow, 0)),
                              GoodSig(PlainAuthorization, "Base Mainnet")),
                   Requirements(Some(1), Absent, Merchant, Some(TokenName),
                                Some(TokenVersion))) }
    \cup { Request(FALSE, "exact", NoNetwork, EvmPayload(Absent, NullSig),
                   Requirements(Some(1), Absent, Merchant, Some(TokenName),
                                Some(TokenVersion))) }
    \cup { Request(TRUE, "exact", NetBase,
                   EvmPayload(Some(a), GoodSig(a, "Base Mainnet")),
                   Requirements(Some(1), Absent, Merchant, Some(TokenName),
                                Some(TokenVersion))) :
             a \in { Authorization(Payer, Facilitator, 1, d, 0) :
                       d \in {NoDeadline, DeadlineBeyondDate} } }
    \cup { Request(TRUE, "exact", NetBase,
                   EvmPayload(Some(PlainAuthorization),
                              GoodSig(PlainAuthorization, "Base Mainnet")),
                   NoRequirements) }

(***************************************************************************)
(* settlePayment, EVM path: one action per awaited call.                   *)
(***************************************************************************)
Auth(p) == Val(req[p].payload.authorization)

\* positions in the record of calls
Idx(p, name) == {i \in 1..Len(log[p]) : log[p][i].call = name}
OkIdx(p, name) == {i \in Idx(p, name) : log[p][i].ok}
FailedIdx(p) == {i \in 1..Len(log[p]) : ~log[p][i].ok}

Record(p, entry) == [log EXCEPT ![p] = Append(@, entry)]

\* res.json(response): the handler instance has answered
Respond(p, response) ==
    /\ resp' = [resp EXCEPT ![p] = response]
    /\ pc' = [pc EXCEPT ![p] = "done"]

\* a request of the set `requests` arrives at POST /settle; the handler runs
\* up to its first awaited call
SettleBeginWith(p, requests) ==
    /\ pc[p] \in {"idle", "done"}
    /\ calls < MaxCalls
    /\ \E r \in requests :
         LET e == SettleEntry(r, cfg)
         IN  /\ req' = [req EXCEPT ![p] = r]
             /\ loc' = [loc EXCEPT ![p] = [NoLocals EXCEPT !.label = e.label]]
             /\ pc' = [pc EXCEPT ![p] = e.next]
             /\ resp' = [resp EXCEPT ![p] = e.resp]
    /\ log' = [log EXCEPT ![p] = <<>>]
    /\ calls' = calls + 1
    /\ UNCHANGED <<cfg, portState, server, keyCache, realMode, now, chain, nextTx>>

SettleBegin(p) == SettleBeginWith(p, SettleRequests)

\* await publicClient.getTransactionCount({blockTag: 'pending'}), then the
\* real/simulated branch up to the permit submission
SettleGetNonce(p) ==
    /\ pc[p] = "s_nonce"
    /\ \/ /\ log' = Record(p, Call("getTransactionCount", FALSE, NoNonce, NoAddr, NoHash))
          /\ Respond(p, SettleCatch(req[p], "getTransactionCount failed"))
          /\ UNCHANGED loc
       \/ /\ log' = Record(p, Call("getTransactionCount", TRUE,
                                   PendingCount(chain[loc[p].label]), NoAddr, NoHash))
          /\ loc' = [loc EXCEPT ![p].pendingNonce = PendingCount(chain[loc[p].label])]
          /\ IF useRealSettlement(realMode)
             THEN IF req[p].payload.signature.form = "short"
                  THEN Respond(p, SettleCatch(req[p], "invalid permit arguments"))
                  ELSE /\ pc' = [pc EXCEPT ![p] = "s_permit"]
                       /\ UNCHANGED resp
             ELSE Respond(p, SettleResponse(200, TRUE, Auth(p).from, TxSimulated,
                                            req[p].accepted.network, NoReason))
    /\ UNCHANGED <<cfg, portState, server, keyCache, realMode, now, chain, nextTx, calls, req>>

\* the node takes a transaction of the facilitator's account into its pool
NonceAcceptable(c, nonce) ==
    /\ nonce >= c.mined
    /\ \A t \in c.pool : t.nonce # nonce

\* walletClient.writeContract(t): raises, or returns t.hash
Submit(p, t, label, failure, nextPc, hashField) ==
    \/ /\ log' = Record(p, Call(t.fn, FALSE, t.nonce, t.to, NoHash))
       /\ Respond(p, failure)
       /\ UNCHANGED <<chain, nextTx, loc>>
    \/ /\ CallOk(chain[label], label, t, now)
       /\ NonceAcceptable(chain[label], t.nonce)
       /\ chain' = [chain EXCEPT ![label].pool = @ \cup {t}]
       /\ nextTx' = nextTx + 1
       /\ loc' = [loc EXCEPT ![p][hashField] = t.hash]
       /\ log' = Record(p, Call(t.fn, TRUE, t.nonce, t.to, t.hash))
       /\ pc' = [pc EXCEPT ![p] = nextPc]
       /\ UNCHANGED resp

\* await walletClient.writeContract({functionName: 'permit', nonce: pendingNonce})
SettlePermitSubmit(p) ==
    /\ pc[p] = "s_permit"
    /\ Submit(p,
              Tx(nextTx, PermitTxNonce(loc[p].pendingNonce), "permit", Auth(p).from,
                 Auth(p).to, NoAddr, Auth(p).value, Auth(p).validBefore,
                 req[p].payload.signature),
              loc[p].label, SettleCatch(req[p], "permit failed"),
              "s_permit_wait", "permitHash")
    /\ UNCHANGED <<cfg, portState, server, keyCache, realMode, now, calls, req>>

\* mutant: a failed confirmation wait is swallowed and the handler goes on
SettlePermitWait_IgnoresFailure(p) ==
    /\ pc[p] = "s_permit_wait"
    /\ \/ /\ HasReceipt(chain[loc[p].label], loc[p].permitHash)
          /\ log' = Record(p, Call("waitPermit", TRUE, NoNonce, NoAddr, loc[p].permitHash))
       \/ log' = Record(p, Call("waitPermit", FALSE, NoNonce, NoAddr, loc[p].permitHash))
    /\ pc' = [pc EXCEPT ![p] = "s_transfer"]
    /\ UNCHANGED <<cfg, portState, server, keyCache, realMode, now, chain, nextTx, calls, req, loc, resp>>

\* await publicClient.waitForTransactionReceipt({hash: permitHash, confirmations: 1})
SettlePermitWait(p) ==
    /\ pc[p] = "s_permit_wait"
    /\ \/ /\ HasReceipt(chain[loc[p].label], loc[p].permitHash)
          /\ log' = Record(p, Call("waitPermit", TRUE, NoNonce, NoAddr, loc[p].permitHash))
          /\ pc' = [pc EXCEPT ![p] = "s_transfer"]
          /\ UNCHANGED resp
       \/ /\ log' = Record(p, Call("waitPermit", FALSE, NoNonce, NoAddr, loc[p].permitHash))
          /\ Respond(p, SettleCatch(req[p], "waitForTransactionReceipt failed"))
    /\ UNCHANGED <<cfg, portState, server, keyCache, realMode, now, chain, nextTx, calls, req, loc>>

\* mutant: a failed transferFrom submission is retried once
SettleTransferSubmit_Retries(p) ==
    /\ pc[p] = "s_transfer"
    /\ LET t == Tx(nextTx, TransferTxNonce(loc[p].pendingNonce), "transferFrom",
                   Auth(p).from, Facilitator, SettleRecipient(req[p]), Auth(p).value,
                   Auth(p).validBefore, NullSig)
       IN  \/ /\ Idx(p, "transferFrom") = {}
              /\ log' = Record(p, Call(t.fn, FALSE, t.nonce, t.to, NoHash))
              /\ UNCHANGED <<chain, nextTx, loc, pc, resp>>
           \/ Submit(p, t, loc[p].label, SettleCatch(req[p], "transferFrom failed"),
                     "s_transfer_wait", "transferHash")
    /\ UNCHANGED <<cfg, portState, server, keyCache, realMode, now, calls, req>>

\* await walletClient.writeContract({functionName: 'transferFrom', nonce: pendingNonce + 1})
SettleTransferSubmit(p) ==
    /\ pc[p] = "s_transfer"
    /\ Submit(p,
              Tx(nextTx, TransferTxNonce(loc[p].pendingNonce), "transferFrom",
                 Auth(p).from, Facilitator, SettleRecipient(req[p]), Auth(p).value,
                 Auth(p).validBefore, NullSig),
              loc[p].label, SettleCatch(req[p], "transferFrom failed"),
              "s_transfer_wait", "transferHash")
    /\ UNCHANGED <<cfg, portState, server, keyCache, realMode, now, calls, req>>

\* mutant: the answer carries the hash of the permit transaction
SettleTransferWait_ReportsPermitHash(p) ==
    /\ pc[p] = "s_transfer_wait"
    /\ \/ /\ HasReceipt(chain[loc[p].label], loc[p].transferHash)
          /\ log' = Record(p, Call("waitTransfer", TRUE, NoNonce, NoAddr, loc[p].transferHash))
          /\ Respond(p, SettleResponse(200, TRUE, Auth(p).from,
                                       TxReal(loc[p].permitHash),
                                       req[p].accepted.network, NoReason))
       \/ /\ log' = Record(p, Call("waitTransfer", FALSE, NoNonce, NoAddr, loc[p].transferHash))
          /\ Respond(p, SettleCatch(req[p], "waitForTransactionReceipt failed"))
    /\ UNCHANGED <<cfg, portState, server, keyCache, realMode, now, chain, nextTx, calls, req, loc>>

\* await publicClient.waitForTransactionReceipt({hash: transferHash}), res.json
SettleTransferWait(p) ==
    /\ pc[p] = "s_transfer_wait"
    /\ \/ /\ HasReceipt(chain[loc[p].label], loc[p].transferHash)
          /\ log' = Record(p, Call("waitTransfer", TRUE, NoNonce, NoAddr, loc[p].transferHash))
          /\ Respond(p, SettleResponse(200, TRUE, Auth(p).from,
                                       TxReal(loc[p].transferHash),
                                       req[p].accepted.network, NoReason))
       \/ /\ log' = Record(p, Call("waitTransfer", FALSE, NoNonce, NoAddr, loc[p].transferHash))
          /\ Respond(p, SettleCatch(req[p], "waitForTransactionReceipt failed"))
    /\ UNCHANGED <<cfg, portState, server, keyCache, realMode, now, chain, nextTx, calls, req, loc>>

(***************************************************************************)
(* settleSolanaPayment: getLatestBlockhash, then sendAndConfirmTransaction *)
(* (send, then wait for 'confirmed').                                      *)
(***************************************************************************)
\* SPL transfer with the facilitator as delegate authority would succeed
SplTransferOk(c, from, to, amount) ==
    /\ from \in Addrs /\ to \in Addrs
    /\ c.allowance[from][Facilitator] >= amount
    /\ c.bal[from] >= amount

SolanaBlockhash(p) ==
    /\ pc[p] = "sol_blockhash"
    /\ \/ /\ log' = Record(p, Call("getLatestBlockhash", FALSE, NoNonce, NoAddr, NoHash))
          /\ Respond(p, SolanaCatch(req[p], "failed to get recent blockhash"))
       \/ /\ log' = Record(p, Call("getLatestBlockhash", TRUE, NoNonce, NoAddr, NoHash))
          /\ pc' = [pc EXCEPT ![p] = "sol_send"]
          /\ UNCHANGED resp
    /\ UNCHANGED <<cfg, portState, server, keyCache, realMode, now, chain, nextTx, calls, req, loc>>

SolanaSend(p) ==
    /\ pc[p] = "sol_send"
    /\ LET from   == req[p].payload.from
           to     == SolanaDestination(req[p])
           amount == Val(req[p].payload.amount)
       IN  \/ /\ log' = Record(p, Call("sendTransaction", FALSE, NoNonce, to, NoHash))
              /\ Respond(p, SolanaCatch(req[p], "failed to send transaction"))
              /\ UNCHANGED <<chain, nextTx, loc>>
           \/ /\ SplTransferOk(chain[Solana], from, to, amount)
              /\ chain' = [chain EXCEPT ![Solana] = ApplyTransfer(@, from, to, amount)]
              /\ nextTx' = nextTx + 1
              /\ loc' = [loc EXCEPT ![p].transferHash = nextTx]
              /\ log' = Record(p, Call("sendTransaction", TRUE, NoNonce, to, nextTx))
              /\ pc' = [pc EXCEPT ![p] = "sol_confirm"]
              /\ UNCHANGED resp
    /\ UNCHANGED <<cfg, portState, server, keyCache, realMode, now, calls, req>>

SolanaConfirm(p) ==
    /\ pc[p] = "sol_confirm"
    /\ \/ /\ log' = Record(p, Call("confirmTransaction", TRUE, NoNonce, NoAddr, loc[p].transferHash))
          /\ Respond(p, SettleResponse(200, TRUE, req[p].payload.from,
                                       TxReal(loc[p].transferHash),
                                       SolanaNetworkLiteral, NoReason))
       \/ /\ log' = Record(p, Call("confirmTransaction", FALSE, NoNonce, NoAddr, loc[p].transferHash))
          /\ Respond(p, SolanaCatch(req[p], "transaction was not confirmed"))
    /\ UNCHANGED <<cfg, portState, server, keyCache, realMode, now, chain, nextTx, calls, req, loc>>

(***************************************************************************)
(* Environment: the chain includes pooled transactions, time passes.       *)
(***************************************************************************)
Mine(label) ==
    /\ \E t \in chain[label].pool :
         /\ t.nonce = chain[label].mined
         /\ LET c  == chain[label]
                ok == CallOk(c, label, t, now)
                c2 == IF ok THEN ApplyCall(c, t) ELSE c
            IN  chain' = [chain EXCEPT ![label] =
                    [c2 EXCEPT !.pool = @ \ {t},
                               !.mined = @ + 1,
                               !.receipts = @ \cup
                                  {[hash |-> t.hash,
                                    status |-> IF ok THEN "success" ELSE "reverted"]}]]
    /\ UNCHANGED <<cfg, portState, server, keyCache, realMode, now, nextTx, calls, pc, req, loc, log, resp>>

\* the payer moves all of its tokens elsewhere, outside the facilitator
PayerSpends(label) ==
    /\ chain[label].bal[Payer] > 0
    /\ chain' = [chain EXCEPT ![label].bal =
                    [@ EXCEPT ![Payer] = 0, ![Stranger] = @ + chain[label].bal[Payer]]]
    /\ UNCHANGED <<cfg, portState, server, keyCache, realMode, now, nextTx, calls, pc, req, loc, log, resp>>

Tick ==
    /\ now < MaxNow
    /\ now' = now + 1
    /\ UNCHANGED <<cfg, portState, server, keyCache, realMode, chain, nextTx, calls, pc, req, loc, log, resp>>

(***************************************************************************)
(* Start-up.                                                               *)
(***************************************************************************)
Config(keyless) ==
    [privateKey |-> [l \in Labels |-> IF l \in keyless THEN "" ELSE "key"],
     address    |-> [l \in Labels |-> IF l \in keyless THEN "" ELSE Facilitator]]

Configs == {Config({}), Config({"Base Mainnet", Solana})}

InitChain(l, payerBalance) ==
    [permitNonce |-> [a \in Addrs |-> 0],
     allowance   |-> [o \in Addrs |-> [sp \in Addrs |->
                        IF l = Solana /\ o = Payer /\ sp = Facilitator
                        THEN MaxValue ELSE 0]],
     bal         |-> [a \in Addrs |-> IF a = Payer THEN payerBalance ELSE 0],
     mined       |-> 0,
     pool        |-> {},
     receipts    |-> {}]

\* module state of index.ts and middleware/apiKey.ts before any use
NotStarted == [state |-> "off", port |-> 0 - 1, tried |-> <<>>]
ApiKeys    == {"key-1", "key-2"}
EmptyCache == [k \in ApiKeys |-> Absent]

BlankRequest ==
    Request(FALSE, "", NoNetwork, EvmPayload(Absent, NullSig),
            Requirements(Absent, Absent, NoAddr, Absent, Absent))

InitRequests ==
    /\ nextTx = 1
    /\ calls = 0
    /\ pc = [p \in Procs |-> "idle"]
    /\ req = [p \in Procs |-> BlankRequest]
    /\ loc = [p \in Procs |-> NoLocals]
    /\ log = [p \in Procs |-> <<>>]
    /\ resp = [p \in Procs |-> NoResponse]

InitHandlers ==
    /\ InitRequests
    /\ portState = <<>>
    /\ server = NotStarted
    /\ keyCache = EmptyCache

InitSettle ==
    /\ cfg \in Configs
    /\ realMode \in BOOLEAN
    /\ now = 1
    /\ chain = [l \in Labels |-> InitChain(l, MaxBal)]
    /\ InitHandlers

\* one settle invocation at a time
Main == "h1"

NextSettle ==
    \/ SettleBegin(Main)
    \/ SettleGetNonce(Main)
    \/ SettlePermitSubmit(Main)
    \/ SettlePermitWait(Main)
    \/ SettleTransferSubmit(Main)
    \/ SettleTransferWait(Main)
    \/ SolanaBlockhash(Main)
    \/ SolanaSend(Main)
    \/ SolanaConfirm(Main)
    \/ \E l \in EvmLabels : Mine(l)
    \/ PayerSpends("Base Mainnet")
    \/ Tick

SpecSettle == InitSettle /\ [][NextSettle]_vars

(***************************************************************************)
(* The same payload sent to /settle again after it was settled: the second *)
(* request is handled by another invocation of the handler.                *)
(***************************************************************************)
First  == "h1"
Second == "h2"

\* the client repeats the request that `q` has answered with success
ReplayBegin(p, q) ==
    /\ pc[q] = "done"
    /\ resp[q].op = "settle"
    /\ resp[q].ok
    /\ pc[p] = "idle"
    /\ SettleBeginWith(p, {req[q]})

SettleSteps(p) ==
    \/ SettleGetNonce(p)
    \/ SettlePermitSubmit(p)
    \/ SettlePermitWait(p)
    \/ SettleTransferSubmit(p)
    \/ SettleTransferWait(p)
    \/ SolanaBlockhash(p)
    \/ SolanaSend(p)
    \/ SolanaConfirm(p)

NextReplay ==
    \/ pc[First] = "idle" /\ SettleBegin(First)
    \/ ReplayBegin(Second, First)
    \/ \E p \in Procs : SettleSteps(p)
    \/ \E l \in EvmLabels : Mine(l)
    \/ PayerSpends("Base Mainnet")
    \/ Tick

SpecReplay == InitSettle /\ [][NextReplay]_vars

(***************************************************************************)
(* Concurrent real-mode settles of one payer authorization: each handler   *)
(* invocation runs between its awaited calls while the other one waits.    *)
(***************************************************************************)
ConcurrentRequests ==
    { Request(TRUE, "exact", NetBase, EvmPayload(Some(a), GoodSig(a, "Base Mainnet")),
              Requirements(Some(1), Absent, Merchant, Some(TokenName), Some(TokenVersion))) :
        a \in { Authorization(Payer, Facilitator, v, MaxNow, 0) : v \in 1..MaxValue } }

\* the requests in flight, or any request when there is none
SameAuthorization(p) ==
    LET inFlight == { req[q] : q \in { x \in Procs \ {p} : pc[x] # "idle" } }
    IN  IF inFlight = {} THEN ConcurrentRequests ELSE inFlight

ConcurrentBegin(p) ==
    /\ pc[p] = "idle"
    /\ SettleBeginWith(p, SameAuthorization(p))

InitConcurrent ==
    /\ cfg = Config({})
    /\ realMode = TRUE
    /\ now = 1
    /\ \E b \in 1..MaxBal : chain = [l \in Labels |-> InitChain(l, b)]
    /\ InitHandlers

NextConcurrent ==
    \/ \E p \in Procs : ConcurrentBegin(p)
    \/ \E p \in Procs : SettleGetNonce(p)
    \/ \E p \in Procs : SettlePermitSubmit(p)
    \/ \E p \in Procs : SettlePermitWait(p)
    \/ \E p \in Procs : SettleTransferSubmit(p)
    \/ \E p \in Procs : SettleTransferWait(p)
    \/ Mine("Base Mainnet")
    \/ Tick

SpecConcurrent == InitConcurrent /\ [][NextConcurrent]_vars

(***************************************************************************)
(* verifyPayment (x402 v2).  The checks a handler has evaluated are kept   *)
(* in its record of calls, in the order the code evaluates them.           *)
(***************************************************************************)
CheckOrder ==
    <<"scheme", "network", "shape", "signature", "expiry", "amount",
      "recipient", "balance">>

Check(name, ok) == Call(name, ok, NoNonce, NoAddr, NoHash)
Passed(names) == [i \in 1..Len(names) |-> Check(names[i], TRUE)]
FailedLast(names) == [i \in 1..Len(names) |-> Check(names[i], i < Len(names))]

\* the handler goes on to an awaited call / has answered at a failing check
VGoto(next, label, names) ==
    [resp |-> NoResponse, label |-> label, next |-> next, checks |-> Passed(names)]
VReply(response, names) ==
    [resp |-> response, label |-> NoLabel, next |-> "done",
     checks |-> FailedLast(names)]
\* the handler has answered from its catch block while no check was failing
VRaise(response, names) ==
    [resp |-> response, label |-> NoLabel, next |-> "done", checks |-> Passed(names)]

\* mutant: an error is answered as the business reason of the balance check
VerifyCatch_AsInsufficientBalance(r, message) ==
    VerifyResponse(200, FALSE, AuthFromOrUnknown(r),
                   Reason("Insufficient balance", <<>>))

\* outer catch of verifyPayment: status 500, `Server error: ${error.message}`
VerifyCatch(r, message) ==
    VerifyResponse(500, FALSE, AuthFromOrUnknown(r),
                   Reason("Server error: ", <<message>>))

\* x || fallback, for the optional strings of paymentRequirements.extra
OrDefault(f, fallback) == IF Has(f) /\ Val(f) # "" THEN Val(f) ELSE fallback

\* const permitDomain = {name: extra.name || 'Stable Coin', version: extra.version || '1', ...}
permitDomain(r, label) ==
    [chainId |-> ChainIdOf(label),
     name |-> OrDefault(r.paymentRequirements.extra.name, "Stable Coin"),
     version |-> OrDefault(r.paymentRequirements.extra.version, "1"),
     verifyingContract |-> TokenOf(label)]

\* const permitMessage = {owner, spender, value, nonce, deadline}
permitMessage(a) == PermitMessage(a.from, a.to, a.value, a.nonce, a.validBefore)

\* viem verifyTypedData: "throws" on a signature it cannot parse and on a
\* missing address (getAddress(undefined)), otherwise
\* whether the recovered signer of (domain, message) is `address`
verifyTypedData(address, domain, message, signature) ==
    IF signature.form # "hex65" \/ address = NoAddr THEN "throws"
    ELSE IF /\ signature.signer = address
            /\ signature.domain = domain
            /\ signature.message = message
    THEN "true" ELSE "false"

\* verifyPayment from its first line to `await verifyTypedData`
VerifyEntry(r) ==
    LET network == r.accepted.network
        scheme  == r.accepted.scheme
        label   == resolveEvmNetwork(network)
    IN  IF ~r.hasPayload
        THEN VReply(VerifyResponse(500, FALSE, Unknown,
                                   Reason("Missing paymentPayload", <<>>)), <<>>)
        ELSE IF scheme # "exact"
        THEN VReply(VerifyResponse(200, FALSE, AuthFromOrUnknown(r),
                                   Reason("Unsupported scheme: ", <<scheme>>)),
                    <<"scheme">>)
        ELSE IF network # NoNetwork /\ StartsWith(network, SolanaPrefix)
        THEN VGoto("v_solana", Solana, <<"scheme">>)
        ELSE IF NetworkRaises(network)
        THEN VReply(VerifyCatch(r, "Cannot read properties of undefined (reading 'match')"),
                    <<"scheme", "network">>)
        ELSE IF label = NoLabel
        THEN VReply(VerifyResponse(200, FALSE, AuthFromOrUnknown(r),
                                   Reason("Unknown network: ", network)),
                    <<"scheme", "network">>)
        ELSE IF ~Has(r.payload.authorization)
        THEN VReply(VerifyResponse(200, FALSE, Unknown,
                                   Reason("Missing authorization data in payload", <<>>)),
                    <<"scheme", "network", "shape">>)
        ELSE IF ~r.paymentRequirements.present
        THEN VRaise(VerifyCatch(r, "Cannot read properties of undefined (reading 'payTo')"),
                    <<"scheme", "network", "shape">>)
        ELSE IF InvalidDate(Val(r.payload.authorization).validBefore)
        THEN VRaise(VerifyCatch(r, "Invalid time value"),
                    <<"scheme", "network", "shape">>)
        ELSE VGoto("v_sig", label, <<"scheme", "network", "shape">>)

\* mutant: an exception of verifyTypedData reaches the outer catch
SignatureCheckRaised_Propagates(r, owner) ==
    VerifyCatch(r, "invalid signature length")

\* catch block around verifyTypedData: a normal answer, not a rethrow
SignatureCheckRaised(r, owner) ==
    VerifyResponse(200, FALSE, owner,
                   Reason("Permit signature verification failed", <<>>))

\* mutant: the recipient is the account the authorization names
recipient_FromAuthorization(r) == Val(r.payload.authorization).to

\* const recipient = paymentRequirements.payTo
recipient(r) == r.paymentRequirements.payTo

\* mutant: a permit is expired from its deadline on
PermitExpired_AtDeadline(time, deadline) == time >= deadline

\* now > Number(deadline), now = Math.floor(Date.now() / 1000); a comparison
\* with NaN is false
PermitExpired(time, deadline) == deadline # NoDeadline /\ time > deadline

\* mutant: the amount is compared before the deadline
VerifyAfterSignature_AmountFirst(r, label, time) ==
    LET a     == Val(r.payload.authorization)
        owner == a.from
        max   == r.paymentRequirements.maxAmountRequired
        isValidSig == verifyTypedData(owner, permitDomain(r, label),
                                      permitMessage(a), r.payload.signature)
    IN  IF isValidSig # "true"
        THEN VReply(VerifyResponse(200, FALSE, owner,
                                   Reason("Invalid permit signature", <<>>)),
                    <<"signature">>)
        ELSE IF Has(max) /\ a.value < Val(max)
        THEN VReply(VerifyResponse(200, FALSE, owner, Reason("Insufficient amount", <<>>)),
                    <<"signature", "amount">>)
        ELSE IF time > a.validBefore
        THEN VReply(VerifyResponse(200, FALSE, owner, Reason("Permit expired", <<>>)),
                    <<"signature", "amount", "expiry">>)
        ELSE VGoto("v_balance", label, <<"signature", "amount", "expiry", "recipient">>)

\* verifyPayment from the result of verifyTypedData to `await publicClient.readContract`
VerifyAfterSignature(r, label, time) ==
    LET a      == Val(r.payload.authorization)
        owner  == a.from
        max    == r.paymentRequirements.maxAmountRequired
        payTo  == r.paymentRequirements.payTo
        isValidSig == verifyTypedData(owner, permitDomain(r, label),
                                      permitMessage(a), r.payload.signature)
    IN  IF isValidSig = "false"
        THEN VReply(VerifyResponse(200, FALSE, owner,
                                   Reason("Invalid permit signature", <<>>)),
                    <<"signature">>)
        ELSE IF isValidSig = "throws"
        THEN VReply(SignatureCheckRaised(r, owner), <<"signature">>)
        ELSE IF PermitExpired(time, a.validBefore)
        THEN VReply(VerifyResponse(200, FALSE, owner, Reason("Permit expired", <<>>)),
                    <<"signature", "expiry">>)
        ELSE IF ~Has(max)
        THEN VReply(VerifyCatch(r, "Cannot convert undefined to a BigInt"),
                    <<"signature", "expiry", "amount">>)
        ELSE IF a.value < Val(max)
        THEN VReply(VerifyResponse(200, FALSE, owner, Reason("Insufficient amount", <<>>)),
                    <<"signature", "expiry", "amount">>)
        ELSE IF recipient(r) = NoAddr
        THEN VReply(VerifyCatch(r, "Cannot read properties of undefined (reading 'toLowerCase')"),
                    <<"signature", "expiry", "amount", "recipient">>)
        ELSE IF recipient(r) # payTo
        THEN VReply(VerifyResponse(200, FALSE, owner, Reason("Invalid recipient", <<>>)),
                    <<"signature", "expiry", "amount", "recipient">>)
        ELSE VGoto("v_balance", label, <<"signature", "expiry", "amount", "recipient">>)

\* the outcomes of verifySolanaPayment(payload, requirements) at second `time`
\* with the token accounts as in c: the pipeline after the routing by network
\* (shape, signature, deadline, amount, recipient), then one lookup of the
\* payer's SPL token account, which may fail in transport. `reads` is the
\* record of that lookup; an internal error is raised to verifyPayment with
\* the message `raises`, and the catch block of verifyPayment reports it as
\* it reports those of the EVM path
verifySolanaPayment(payload, requirements, time, c) ==
    LET \* {isValid: false, payer, invalidReason} of one kind of the taxonomy
        Invalid(kind) ==
            VerifyResponse(200, FALSE, OrUnknown(payload.from), Reason(kind, <<>>))
        Rejected(kind) == {[resp |-> Invalid(kind), raises |-> "", reads |-> <<>>]}
        \* Ed25519 verification of the detached signature against `from`; a
        \* malformed signature is an invalid one
        signatureValid ==
            /\ payload.signature.form = "ed25519"
            /\ payload.signature.signer = payload.from
            /\ payload.signature.message =
                   IntentMessage(payload.from, payload.to, payload.amount,
                                 payload.nonce, payload.deadline)
    IN  IF \/ payload.from = NoAddr \/ payload.to = NoAddr
           \/ ~Has(payload.amount) \/ ~Has(payload.deadline)
        THEN Rejected("MissingAuthorization")
        ELSE IF ~signatureValid
        THEN Rejected("SignatureInvalid")
        ELSE IF time > Val(payload.deadline)
        THEN Rejected("Expired")
        ELSE IF ~Has(requirements.amount)
        THEN {[resp |-> NoResponse, raises |-> "no required amount", reads |-> <<>>]}
        ELSE IF Val(payload.amount) < Val(requirements.amount)
        THEN Rejected("InsufficientAmount")
        ELSE IF payload.to # requirements.payTo
        THEN Rejected("RecipientMismatch")
        ELSE { [resp |-> NoResponse, raises |-> "token account lookup failed",
                reads |-> <<Check("balance", FALSE)>>],
               IF c.bal[payload.from] < Val(payload.amount)
               THEN [resp   |-> Invalid("InsufficientBalance"),
                     raises |-> "",
                     reads  |-> <<Call("balance", FALSE, NoNonce, payload.from, NoHash)>>]
               ELSE [resp   |-> VerifyResponse(200, TRUE, payload.from, NullReason),
                     raises |-> "",
                     reads  |-> <<Call("balance", TRUE, NoNonce, payload.from, NoHash)>>] }

(***************************************************************************)
(* Inputs of verify.                                                       *)
(***************************************************************************)
\* createPaymentRequirements: the v2 format, `amount` and no maxAmountRequired
PlainRequirements ==
    Requirements(Some(1), Absent, Merchant, Some(TokenName), Some(TokenVersion))

\* requirements that carry the maxAmountRequired verifyPayment compares with
LegacyRequirements == Requirements(Some(1), Some(1), Merchant, Absent, Absent)

\* requirements with and without maxAmountRequired, and with another token name
VerifyRequirements ==
    { Requirements(Some(1), max, Merchant, Absent, Some(TokenVersion)) :
        max \in {Absent, Some(1), Some(MaxValue)} }
    \cup { Requirements(Some(1), Some(1), Merchant, Some("Other Coin"), Absent) }

VerifyAuthorizations ==
    { Authorization(Payer, Facilitator, v, d, 0) : v \in 1..MaxValue, d \in 0..MaxNow }

VerifyPayloads(l) ==
    UNION { { EvmPayload(Some(a), sg) : sg \in SigsFor(a, l) \cup {ForgedSig(a, l)} } :
            a \in VerifyAuthorizations }

\* intents for /verify: the well-signed one, one signed by somebody else, one
\* that expires at second 1, one that pays another account, one without payer
SolanaIntents ==
    { SolanaPayload(Payer, Merchant, Some(1)),
      SolanaIntent(Payer, Merchant, Some(1), Some(0), Some(MaxNow),
                   Signature("ed25519", Stranger, BlankDomain,
                             IntentMessage(Payer, Merchant, Some(1), Some(0),
                                           Some(MaxNow)))),
      SolanaIntent(Payer, Merchant, Some(1), Some(0), Some(1),
                   Signature("ed25519", Payer, BlankDomain,
                             IntentMessage(Payer, Merchant, Some(1), Some(0), Some(1)))),
      SolanaPayload(Payer, Stranger, Some(1)),
      SolanaPayload(NoAddr, Merchant, Some(1)) }

VerifyRequests ==
    { Request(TRUE, "exact", NetBase, pl, rq) :
        pl \in VerifyPayloads("Base Mainnet"), rq \in VerifyRequirements }
    \cup UNION { { Request(TRUE, "exact", net, pl, LegacyRequirements) :
                     pl \in SamplePayloads(resolveEvmNetwork(net)) } :
                 net \in {NetBaseSepolia, NetRadius, NetRadiusTest} }
    \cup { Request(TRUE, "exact", net,
                   EvmPayload(Some(PlainAuthorization),
                              GoodSig(PlainAuthorization, resolveEvmNetwork(net))),
                   PlainRequirements) :
             net \in {NetBase, NetBaseSepolia, NetRadius, NetRadiusTest} }
    \cup { Request(TRUE, sc, net, pl, LegacyRequirements) :
             sc \in {"exact", "subscribe"},
             net \in {NetBase, NetUnknownEvm, NetLegacyBase, NoNetwork},
             pl \in SamplePayloads("Base Mainnet") }
    \cup { Request(TRUE, "exact", NetBase,
                   EvmPayload(Some(PlainAuthorization),
                              GoodSig(PlainAuthorization, "Base Mainnet")),
                   Requirements(Some(1), Some(1), NoAddr, Absent, Absent)) }
    \cup { Request(TRUE, "exact", NetSolana, pl,
                   Requirements(Some(1), Absent, Merchant, Absent, Absent)) :
             pl \in SolanaIntents }
    \cup { Request(TRUE, "exact", NetSolana, SolanaPayload(Payer, Merchant, Some(1)),
                   Requirements(Some(MaxValue), Absent, Merchant, Absent, Absent)) }
    \cup UNION { { Request(TRUE, "exact", NetBase, EvmPayload(Some(a), sg),
                             LegacyRequirements) :
                     sg \in {GoodSig(a, "Base Mainnet"), ForgedSig(a, "Base Mainnet")} } :
                 a \in { Authorization(Payer, Facilitator, 1, d, 0) :
                           d \in {NoDeadline, DeadlineBeyondDate} } }
    \cup { Request(TRUE, "exact", NetBase,
                   EvmPayload(Some(PlainAuthorization),
                              GoodSig(PlainAuthorization, "Base Mainnet")),
                   NoRequirements) }
    \cup { Request(FALSE, "exact", NoNetwork, EvmPayload(Absent, NullSig),
                   LegacyRequirements) }
    \cup { Request(TRUE, "exact", NetBase,
                   EvmPayload(Some(Authorization(NoAddr, Facilitator, 1, MaxNow, 0)),
                              GoodSig(PlainAuthorization, "Base Mainnet")),
                   LegacyRequirements) }

(***************************************************************************)
(* verifyPayment: one action per awaited call.                             *)
(***************************************************************************)
\* a request of the set `requests` arrives at POST /verify; the handler runs
\* up to its first awaited call
VerifyBeginWith(p, requests) ==
    /\ pc[p] \in {"idle", "done"}
    /\ calls < MaxCalls
    /\ \E r \in requests :
         LET e == VerifyEntry(r)
         IN  /\ req' = [req EXCEPT ![p] = r]
             /\ loc' = [loc EXCEPT ![p] = [NoLocals EXCEPT !.label = e.label]]
             /\ pc' = [pc EXCEPT ![p] = e.next]
             /\ resp' = [resp EXCEPT ![p] = e.resp]
             /\ log' = [log EXCEPT ![p] = e.checks]
    /\ calls' = calls + 1
    /\ UNCHANGED <<cfg, portState, server, keyCache, realMode, now, chain, nextTx>>

VerifyBegin(p) == VerifyBeginWith(p, VerifyRequests)

\* await verifyTypedData(...), then the deadline, amount and recipient checks
VerifySignature(p) ==
    /\ pc[p] = "v_sig"
    /\ LET e == VerifyAfterSignature(req[p], loc[p].label, now)
       IN  /\ pc' = [pc EXCEPT ![p] = e.next]
           /\ resp' = [resp EXCEPT ![p] = e.resp]
           /\ log' = [log EXCEPT ![p] = @ \o e.checks]
    /\ UNCHANGED <<cfg, portState, server, keyCache, realMode, now, chain, nextTx, calls, req, loc>>

\* mutant: a balance equal to the value is not enough
InsufficientBalance_AtEquality(balance, value) == balance <= value

\* balance < BigInt(value)
InsufficientBalance(balance, value) == balance < value

\* mutant: the balance is probed by submitting the transfer
VerifyBalance_SubmitsTransfer(p) ==
    /\ pc[p] = "v_balance"
    /\ LET owner == Auth(p).from
           t == Tx(nextTx, PendingCount(chain[loc[p].label]), "transferFrom", owner,
                   Facilitator, req[p].paymentRequirements.payTo, Auth(p).value,
                   Auth(p).validBefore, NullSig)
       IN  /\ chain' = [chain EXCEPT ![loc[p].label].pool = @ \cup {t}]
           /\ nextTx' = nextTx + 1
           /\ log' = Record(p, Call("balance", TRUE, NoNonce, owner, NoHash))
           /\ Respond(p, VerifyResponse(200, TRUE, owner, NullReason))
    /\ UNCHANGED <<cfg, portState, server, keyCache, realMode, now, calls, req, loc>>

\* the balance check on a balance that balanceOf(owner) returned; a read that
\* raised is recorded as a failed check without an account
BalanceChecked(owner, ok) == Call("balance", ok, NoNonce, owner, NoHash)

\* await publicClient.readContract({functionName: 'balanceOf', args: [owner]}),
\* then the balance comparison and the success response
VerifyBalance(p) ==
    /\ pc[p] = "v_balance"
    /\ LET owner   == Auth(p).from
           balance == chain[loc[p].label].bal[owner]
       IN  \/ /\ log' = Record(p, Check("balance", FALSE))
              /\ Respond(p, VerifyCatch(req[p], "readContract failed"))
           \/ /\ InsufficientBalance(balance, Auth(p).value)
              /\ log' = Record(p, BalanceChecked(owner, FALSE))
              /\ Respond(p, VerifyResponse(200, FALSE, owner,
                                           Reason("Insufficient balance", <<>>)))
           \/ /\ ~InsufficientBalance(balance, Auth(p).value)
              /\ log' = Record(p, BalanceChecked(owner, TRUE))
              /\ Respond(p, VerifyResponse(200, TRUE, owner, NullReason))
    /\ UNCHANGED <<cfg, portState, server, keyCache, realMode, now, chain, nextTx, calls, req, loc>>

\* const result = await verifySolanaPayment(...); return res.json(result)
VerifySolana(p) ==
    /\ pc[p] = "v_solana"
    /\ \/ \E result \in verifySolanaPayment(req[p].payload, req[p].paymentRequirements,
                                             now, chain[Solana]) :
            /\ Respond(p, IF result.raises # ""
                           THEN VerifyCatch(req[p], result.raises)
                           ELSE result.resp)
            /\ log' = [log EXCEPT ![p] = @ \o result.reads]
       \/ /\ Respond(p, VerifyCatch(req[p], "verifySolanaPayment failed"))
          /\ UNCHANGED log
    /\ UNCHANGED <<cfg, portState, server, keyCache, realMode, now, chain, nextTx, calls, req, loc>>

InitVerify ==
    /\ cfg \in Configs
    /\ realMode \in BOOLEAN
    /\ now = 1
    /\ \E b \in 0..MaxBal : chain = [l \in Labels |-> InitChain(l, b)]
    /\ InitHandlers

NextVerify ==
    \/ VerifyBegin(Main)
    \/ VerifySignature(Main)
    \/ VerifyBalance(Main)
    \/ VerifySolana(Main)
    \/ Tick

SpecVerify == InitVerify /\ [][NextVerify]_vars

(***************************************************************************)
(* Routing by accepted.network: one well-formed request per network        *)
(* identifier, sent to /verify and to /settle.                             *)
(***************************************************************************)
NetworkIds ==
    {NetBase, NetBaseSepolia, NetRadius, NetRadiusTest, NetUnknownEvm,
     NetBarePrefix, NetNonNumeric, NetBareId, NetLegacyBase, NetEmpty,
     NetSolana, NetSolanaOther}

\* the payload a client builds for the network it names
RoutingRequest(net) ==
    Request(TRUE, "exact", net,
            IF StartsWith(net, SolanaPrefix)
            THEN SolanaPayload(Payer, Merchant, Some(1))
            ELSE EvmPayload(Some(PlainAuthorization),
                            GoodSig(PlainAuthorization,
                                    IF resolveEvmNetwork(net) = NoLabel
                                    THEN "Base Mainnet"
                                    ELSE resolveEvmNetwork(net))),
            Requirements(Some(1), Some(1), Merchant, Some(TokenName),
                         Some(TokenVersion)))

\* createBasePayment with createPaymentRequirements, for a configured chain
FixtureRequest(net) ==
    Request(TRUE, "exact", net,
            EvmPayload(Some(PlainAuthorization),
                       GoodSig(PlainAuthorization, resolveEvmNetwork(net))),
            PlainRequirements)

RoutingRequests ==
    { RoutingRequest(net) : net \in NetworkIds }
    \cup { FixtureRequest(net) : net \in {NetBase, NetBaseSepolia, NetRadius, NetRadiusTest} }

VerifySteps(p) ==
    \/ VerifySignature(p)
    \/ VerifyBalance(p)
    \/ VerifySolana(p)

\* one invocation of verifyPayment and one of settlePayment
NextRouting ==
    \/ VerifyBeginWith("h1", RoutingRequests)
    \/ SettleBeginWith("h2", { RoutingRequest(net) : net \in NetworkIds })
    \/ VerifySteps("h1")
    \/ SettleSteps("h2")
    \/ \E l \in EvmLabels : Mine(l)
    \/ Tick

SpecRouting == InitVerify /\ [][NextRouting]_vars

(***************************************************************************)
(* GET /supported: getSupportedNetworks.                                   *)
(***************************************************************************)
\* the networks in the order of the if-statements, with the literal ids
SupportedOrder ==
    <<"Base Mainnet", "Base Sepolia", "Radius Mainnet", "Radius Testnet", Solana>>

NetworkIdOf(label) ==
    CASE label = "Base Mainnet"   -> NetBase
      [] label = "Base Sepolia"   -> NetBaseSepolia
      [] label = "Radius Mainnet" -> NetRadius
      [] label = "Radius Testnet" -> NetRadiusTest
      [] label = Solana           -> NetSolana

\* mutant: the address is appended without the includes() test
addSigner_AllowsDuplicates(signers, namespace, address) ==
    LET s == IF namespace \in DOMAIN signers THEN signers
             ELSE signers @@ (namespace :> <<>>)
    IN  [s EXCEPT ![namespace] = Append(@, address)]

\* addSigner(signers, namespace, address)
addSigner(signers, namespace, address) ==
    LET s == IF namespace \in DOMAIN signers THEN signers
             ELSE signers @@ (namespace :> <<>>)
    IN  IF \E i \in 1..Len(s[namespace]) : s[namespace][i] = address
        THEN s
        ELSE [s EXCEPT ![namespace] = Append(@, address)]

\* kinds and signers after the first n if-statements of getSupportedNetworks
RECURSIVE SupportedUpTo(_, _)
SupportedUpTo(c, n) ==
    IF n = 0 THEN [signers |-> <<>>, kinds |-> <<>>]
    ELSE LET prev  == SupportedUpTo(c, n - 1)
             label == SupportedOrder[n]
         IN  IF c.address[label] # "" /\ c.privateKey[label] # ""
             THEN [signers |->
                     addSigner(prev.signers,
                               IF label = Solana THEN "solana:*" ELSE "eip155:*",
                               c.address[label]),
                   kinds |->
                     Append(prev.kinds,
                            [network |-> NetworkIdOf(label),
                             extra |-> IF label = Solana
                                       THEN [name |-> "SBC", version |-> "1",
                                             assetTransferMethod |-> "delegated-spl"]
                                       ELSE [name |-> "Stable Coin", version |-> "1",
                                             assetTransferMethod |-> "erc2612"],
                             scheme |-> "exact",
                             x402Version |-> 2])]
             ELSE prev

\* res.json({kinds, extensions: [], signers})
getSupportedNetworks(c) ==
    LET out == SupportedUpTo(c, Len(SupportedOrder))
    IN  [op |-> "supported", status |-> 200, signers |-> out.signers,
         kinds |-> out.kinds, extensions |-> <<>>]

\* key and address of every network set or unset on their own, with two
\* facilitator addresses; config.ts refuses a Solana key without an address
SupportedConfigs ==
    { c \in [privateKey : [Labels -> {"", "key"}],
             address    : [Labels -> {"", Facilitator, "facilitator-2"}]] :
        ~(c.privateKey[Solana] # "" /\ c.address[Solana] = "") }

InitSupported ==
    /\ cfg \in SupportedConfigs
    /\ realMode = FALSE
    /\ now = 1
    /\ chain = [l \in Labels |-> InitChain(l, 0)]
    /\ InitHandlers

GetSupported(p) ==
    /\ calls < MaxCalls
    /\ calls' = calls + 1
    /\ resp' = [resp EXCEPT ![p] = getSupportedNetworks(cfg)]
    /\ pc' = [pc EXCEPT ![p] = "done"]
    /\ UNCHANGED <<cfg, portState, server, keyCache, realMode, now, chain, nextTx, req, loc, log>>

SpecSupported == InitSupported /\ [][GetSupported(Main)]_vars

(***************************************************************************)
(* Properties of settle.                                                   *)
(***************************************************************************)
IsEvmSettle(p) == loc[p].label \in EvmLabels
ReceiptStatus(l, h) == {r.status : r \in {x \in chain[l].receipts : x.hash = h}}

\* C3: after any sequence of settle calls, on every network, the
\* facilitator's own balance of the settlement asset is not greater than it
\* was at the start (the facilitator starts with none).
C3_FacilitatorBalanceNeverIncreases ==
    \A l \in Labels : chain[l].bal[Facilitator] <= 0

\* C4: whenever a step of settle moves funds, on either chain family, the
\* account credited is paymentRequirements.payTo of the request being settled.
C4_FundsLandAtPayTo ==
    [][\A l \in Labels : \A a \in Addrs :
         chain'[l].bal[a] > chain[l].bal[a]
            => a = req[Main].paymentRequirements.payTo]_vars

\* C5: in a real-mode EVM settle, transferFrom is submitted only after the
\* permit was submitted and one confirmation of it was awaited successfully;
\* after a failed permit submission or a failed wait there is no transferFrom.
C5_TransferOnlyAfterPermitConfirmed ==
    \A p \in Procs : \A i \in Idx(p, "transferFrom") :
        /\ realMode
        /\ \E j \in OkIdx(p, "permit") : \E k \in OkIdx(p, "waitPermit") :
              j < k /\ k < i /\ log[p][k].hash = log[p][j].hash
        /\ \A j \in 1..(i - 1) : log[p][j].ok

C5_Witness ==
    /\ OkIdx(Main, "transferFrom") # {}
    /\ OkIdx(Main, "waitPermit") # {}

\* C6: in one real-mode EVM settle the facilitator's transaction count is
\* read exactly once, before the permit; the permit carries that value n as
\* its nonce and transferFrom carries n+1; the count is never read again.
C6_NonceReadOnceAndReserved ==
    \A p \in Procs :
        /\ Cardinality(Idx(p, "getTransactionCount")) <= 1
        /\ \A i \in Idx(p, "permit") \cup Idx(p, "transferFrom") :
              /\ OkIdx(p, "getTransactionCount") = {1}
              /\ i > 1
              /\ log[p][i].nonce =
                   IF log[p][i].call = "permit"
                   THEN log[p][1].nonce ELSE log[p][1].nonce + 1

C6_Witness ==
    /\ OkIdx(Main, "permit") # {}
    /\ OkIdx(Main, "transferFrom") # {}
    /\ pc[Main] = "done"

PermitStepSucceeded(p) ==
    /\ IsEvmSettle(p)
    /\ OkIdx(p, "waitPermit") # {}
    /\ ReceiptStatus(loc[p].label, loc[p].permitHash) = {"success"}

TransferStepFailed(p) ==
    \/ \E i \in FailedIdx(p) : log[p][i].call \in {"transferFrom", "waitTransfer"}
    \/ /\ loc[p].transferHash # NoHash
       /\ ReceiptStatus(loc[p].label, loc[p].transferHash) = {"reverted"}

\* C7: an EVM settle whose permit step succeeded and whose transferFrom step
\* failed (its submission or its confirmation wait raised, or the transaction
\* was included with a reverted status) answers success:false, transaction ""
\* and a non-empty errorReason.
C7_TransferFailureReported ==
    \A p \in Procs :
        (pc[p] = "done" /\ PermitStepSucceeded(p) /\ TransferStepFailed(p))
        => /\ resp[p].ok = FALSE
           /\ resp[p].transaction = TxEmpty
           /\ resp[p].reason # NoReason
           /\ resp[p].reason.text # ""

\* C8: one settle invocation submits permit at most once and transferFrom at
\* most once; a failed call is the last call of the invocation (no retry, no
\* rollback transaction); when the permit was confirmed and transferFrom
\* never entered the chain, the approval granted by the permit is still there.
C8_NoRetryNoRollback ==
    \A p \in Procs :
        /\ Cardinality(Idx(p, "permit")) <= 1
        /\ Cardinality(Idx(p, "transferFrom")) <= 1
        /\ Cardinality(Idx(p, "sendTransaction")) <= 1
        /\ \A i \in FailedIdx(p) : i = Len(log[p]) /\ pc[p] = "done"
        /\ (pc[p] = "done" /\ PermitStepSucceeded(p) /\ OkIdx(p, "transferFrom") = {})
             => chain[loc[p].label].allowance[Auth(p).from][Auth(p).to] = Auth(p).value

C8_Witness ==
    /\ pc[Main] = "done"
    /\ PermitStepSucceeded(Main)
    /\ Idx(Main, "transferFrom") # {}
    /\ OkIdx(Main, "transferFrom") = {}
    /\ chain[loc[Main].label].allowance[Payer][Facilitator] > 0

PassesSettleChecks(r, c) ==
    /\ r.hasPayload
    /\ r.accepted.scheme = "exact"
    /\ r.accepted.network # NoNetwork
    /\ \/ /\ StartsWith(r.accepted.network, SolanaPrefix)
          /\ c.privateKey[Solana] # ""
          /\ r.payload.from \in Addrs /\ r.payload.to \in Addrs /\ Has(r.payload.amount)
       \/ /\ resolveEvmNetwork(r.accepted.network) # NoLabel
          /\ c.privateKey[resolveEvmNetwork(r.accepted.network)] # ""
          /\ Has(r.payload.authorization)
          /\ r.payload.signature.form # "null"

\* C9: with real settlement disabled, a settle request that passes the
\* scheme, network and authorization checks (on a network whose key is
\* configured) issues no chain call at all, neither an RPC read nor a
\* transaction, and is answered success:true with a fabricated transaction id.
C9_SimulatedTouchesNoChain ==
    \A p \in Procs :
        (~realMode /\ pc[p] # "idle" /\ PassesSettleChecks(req[p], cfg))
        => /\ log[p] = <<>>
           /\ pc[p] = "done" =>
                resp[p].ok /\ resp[p].transaction = TxSimulated

\* C10: with real settlement enabled no fabricated transaction id is ever
\* returned; a settle in which a chain call failed answers success:false with
\* transaction ""; a fabricated id is returned only when the switch is off.
C10_NoFabricatedIdInRealMode ==
    \A p \in Procs :
        /\ resp[p].transaction = TxSimulated => ~realMode
        /\ (realMode /\ pc[p] = "done" /\ FailedIdx(p) # {})
             => resp[p].ok = FALSE /\ resp[p].transaction = TxEmpty

C10_Witness ==
    /\ realMode
    /\ pc[Main] = "done"
    /\ IsEvmSettle(Main)
    /\ FailedIdx(Main) # {}

(***************************************************************************)
(* Properties of verify.                                                   *)
(***************************************************************************)
IsEvmVerify(p) ==
    /\ resp[p].op = "verify"
    /\ req[p].hasPayload
    /\ req[p].accepted.scheme = "exact"
    /\ req[p].accepted.network # NoNetwork
    /\ resolveEvmNetwork(req[p].accepted.network) \in EvmLabels
    /\ Has(req[p].payload.authorization)

SignatureChecksOut(p) ==
    verifyTypedData(Auth(p).from,
                    permitDomain(req[p], resolveEvmNetwork(req[p].accepted.network)),
                    permitMessage(Auth(p)), req[p].payload.signature) = "true"

BalanceReadFailed(p) ==
    resp[p].reason = Reason("Server error: ", <<"readContract failed">>)

\* C1: on every EVM network whose key is configured, a verify that has
\* answered for a payload whose permit signature checks out, whose value is
\* at least paymentRequirements.amount, whose validBefore is not in the past
\* and whose payer holds at least value on-chain (the balance read itself not
\* failing) has answered isValid:true, payer = authorization.from,
\* invalidReason = null.
C1_ValidPaymentAccepted ==
    \A p \in Procs :
        ( /\ pc[p] = "done"
          /\ IsEvmVerify(p)
          /\ cfg.privateKey[resolveEvmNetwork(req[p].accepted.network)] # ""
          /\ SignatureChecksOut(p)
          /\ Has(req[p].paymentRequirements.amount)
          /\ Auth(p).value >= Val(req[p].paymentRequirements.amount)
          /\ Auth(p).validBefore >= now
          /\ chain[resolveEvmNetwork(req[p].accepted.network)].bal[Auth(p).from]
               >= Auth(p).value
          /\ ~BalanceReadFailed(p) )
        => /\ resp[p].ok
           /\ resp[p].payer = Auth(p).from
           /\ resp[p].reason = NullReason

\* the reasons with which each check of the pipeline answers
ReasonsOf(name) ==
    CASE name = "scheme"    -> {"Unsupported scheme: "}
      [] name = "network"   -> {"Unknown network: ", "Server error: "}
      [] name = "shape"     -> {"Missing authorization data in payload"}
      [] name = "signature" -> {"Invalid permit signature",
                                "Permit signature verification failed"}
      [] name = "expiry"    -> {"Permit expired"}
      [] name = "amount"    -> {"Insufficient amount", "Server error: "}
      [] name = "recipient" -> {"Invalid recipient", "Server error: "}
      [] name = "balance"   -> {"Insufficient balance", "Server error: "}

\* what each check decides, stated on the request alone
CheckFails(p, name) ==
    LET r == req[p]
    IN  CASE name = "scheme"  -> r.accepted.scheme # "exact"
          [] name = "network" ->
                \/ r.accepted.network = NoNetwork
                \/ resolveEvmNetwork(r.accepted.network) = NoLabel
          [] name = "shape"   -> ~Has(r.payload.authorization)
          [] name = "signature" -> ~SignatureChecksOut(p)
          [] name = "expiry"  -> now > Auth(p).validBefore
          [] name = "amount"  ->
                \/ ~Has(r.paymentRequirements.maxAmountRequired)
                \/ Auth(p).value < Val(r.paymentRequirements.maxAmountRequired)
          [] name = "recipient" -> r.paymentRequirements.payTo = NoAddr
          [] name = "balance" ->
                \/ BalanceReadFailed(p)
                \/ chain[loc[p].label].bal[Auth(p).from] < Auth(p).value

EvmVerifyRun(p) ==
    /\ resp[p].op \in {"verify", "none"}
    /\ pc[p] \in {"v_sig", "v_balance", "done"}
    /\ req[p].hasPayload
    /\ ~(/\ req[p].accepted.scheme = "exact"
         /\ req[p].accepted.network # NoNetwork
         /\ StartsWith(req[p].accepted.network, SolanaPrefix))

\* what the claim says of one EVM verify: the checks evaluated so far are
\* an initial part of the order, all but the last have passed, and once one
\* fails the handler has answered with that check's reason, every check
\* before it passes on the request, and nothing more is evaluated
ChecksInOrder(p) ==
    LET n == Len(log[p])
    IN  /\ n <= Len(CheckOrder)
        /\ \A i \in 1..n : log[p][i].call = CheckOrder[i]
        /\ \A i \in 1..(n - 1) : log[p][i].ok
        /\ \A i \in 1..n :
             ~log[p][i].ok =>
                /\ i = n
                /\ pc[p] = "done"
                /\ ~resp[p].ok
                /\ resp[p].reason.text \in ReasonsOf(CheckOrder[i])
                /\ CheckFails(p, CheckOrder[i])
                /\ \A j \in 1..(i - 1) :
                     CheckOrder[j] # "expiry" => ~CheckFails(p, CheckOrder[j])
        /\ (pc[p] = "done" /\ ~resp[p].ok) => (n >= 1 /\ ~log[p][n].ok)
        /\ (pc[p] = "done" /\ resp[p].ok) => n = Len(CheckOrder)

ThrowsBeforeSignature(r) ==
    /\ r.accepted.scheme = "exact"
    /\ r.accepted.network # NoNetwork
    /\ resolveEvmNetwork(r.accepted.network) # NoLabel
    /\ Has(r.payload.authorization)
    /\ \/ ~r.paymentRequirements.present
       \/ InvalidDate(Val(r.payload.authorization).validBefore)

IsReplay(p, q) ==
    /\ pc[q] = "done" /\ resp[q].op = "settle" /\ resp[q].ok
    /\ pc[p] = "done" /\ resp[p].op = "settle"
    /\ req[p] = req[q]

\* C11: with real settlement enabled, once a settle of a payload has answered
\* success, a later settle of the same payload answers success:false.
C11_ReplayRejected ==
    (realMode /\ IsReplay(Second, First)) => ~resp[Second].ok

\* receipts of transferFrom transactions that executed
ExecutedTransfers(l) ==
    { h \in { loc[p].transferHash : p \in Procs } :
        h # NoHash /\ ReceiptStatus(l, h) = {"success"} }

SameAuthorizationInFlight ==
    \A p, q \in Procs : (pc[p] # "idle" /\ pc[q] # "idle") => req[p] = req[q]

\* C12: for every interleaving of concurrent real-mode settles carrying the
\* same payer authorization, at most one transferFrom executes, the payer
\* loses at most authorization.value in total (all other accounts start
\* empty), and at most one call answers success:true.
C12_ConcurrentSettlesPayOnce ==
    SameAuthorizationInFlight =>
        /\ Cardinality(ExecutedTransfers("Base Mainnet")) <= 1
        /\ \A p \in Procs :
             pc[p] # "idle" =>
               chain["Base Mainnet"].bal[Merchant]
                 + chain["Base Mainnet"].bal[Facilitator]
                 + chain["Base Mainnet"].bal[Stranger] <= Auth(p).value
        /\ Cardinality({ p \in Procs : pc[p] = "done" /\ resp[p].ok }) <= 1

\* both calls have answered, both had submitted their permit, one succeeded
C12_Witness ==
    /\ \A p \in Procs : pc[p] = "done" /\ Idx(p, "permit") # {}
    /\ \E p \in Procs : resp[p].ok
    /\ \E p \in Procs : ~resp[p].ok /\ OkIdx(p, "permit") # {}
    /\ Cardinality(ExecutedTransfers("Base Mainnet")) = 1


(***************************************************************************)
(* Properties of the routing by network.                                   *)
(***************************************************************************)
\* `eip155:` followed by decimal digits that name a configured chain id
NamesConfiguredChain(network) ==
    /\ StartsWith(network, Eip155Prefix)
    /\ Len(network) > Len(Eip155Prefix)
    /\ \A i \in (Len(Eip155Prefix) + 1)..Len(network) : IsDigit(network[i])
    /\ ParseDec(SubSeq(network, Len(Eip155Prefix) + 1, Len(network)))
         \in {BaseChainId, BaseSepoliaChainId, RadiusChainId, RadiusTestnetChainId}

\* the handler has answered a request that has a payload and the scheme "exact"
Answered(p) ==
    /\ pc[p] = "done"
    /\ resp[p].op \in {"verify", "settle"}
    /\ req[p].hasPayload
    /\ req[p].accepted.scheme = "exact"
    /\ req[p].accepted.network # NoNetwork

\* C13: a request (payload present, scheme exact) whose accepted.network is
\* neither `eip155:` + digits of a configured chain id nor a solana:
\* identifier is answered by verify with isValid false and by settle with
\* success false, and the reason is "Unknown network: " followed by the
\* identifier as received, whether it is malformed or merely unconfigured.
C13_UnknownNetworkRejected ==
    \A p \in Procs :
        LET network == req[p].accepted.network
        IN  ( /\ Answered(p)
              /\ ~NamesConfiguredChain(network)
              /\ ~StartsWith(network, SolanaPrefix) )
            => /\ ~resp[p].ok
               /\ resp[p].status = 200
               /\ resp[p].reason = Reason("Unknown network: ", network)

\* verify and settle have both rejected the bare chain id "8453"
C13_Witness ==
    /\ \A p \in Procs :
         /\ Answered(p)
         /\ req[p].accepted.network = NetBareId
         /\ resp[p].reason = Reason("Unknown network: ", NetBareId)
    /\ {resp[p].op : p \in Procs} = {"verify", "settle"}

\* the network descriptor a request names: one of the four chains, the
\* Solana cluster, or none
NamedNetwork(network) ==
    IF network = NetSolana THEN Solana ELSE resolveEvmNetwork(network)

\* the facilitator's key or address for the network is not configured
Disabled(c, label) == c.privateKey[label] = "" \/ c.address[label] = ""

\* C14: a request naming a network whose facilitator key or address is not
\* configured is rejected by verify and by settle with the unknown-network
\* reason, as a request naming an unconfigured chain id is.
C14_DisabledNetworkRejectedAsUnknown ==
    \A p \in Procs :
        LET network == req[p].accepted.network
        IN  ( /\ Answered(p)
              /\ NamedNetwork(network) # NoLabel
              /\ Disabled(cfg, NamedNetwork(network)) )
            => /\ ~resp[p].ok
               /\ resp[p].reason = Reason("Unknown network: ", network)

\* the handler is inside verifySolanaPayment / settleSolanaPayment
OnSolanaPath(p) == pc[p] \in {"v_solana", "sol_blockhash", "sol_send", "sol_confirm"}

\* C15: a request is handled by the Solana path only when accepted.network
\* equals the configured cluster identifier; a request with any other
\* solana:-prefixed identifier never enters that path and is answered with
\* the unknown-network reason.
C15_SolanaPathOnlyForConfiguredCluster ==
    \A p \in Procs :
        LET network == req[p].accepted.network
        IN  ( /\ req[p].hasPayload
              /\ req[p].accepted.scheme = "exact"
              /\ StartsWith(network, SolanaPrefix)
              /\ network # NetSolana )
            => /\ ~OnSolanaPath(p)
               /\ pc[p] = "done" =>
                     /\ ~resp[p].ok
                     /\ resp[p].reason = Reason("Unknown network: ", network)

(***************************************************************************)
(* Properties of the single checks of verify.                              *)
(***************************************************************************)
\* the step of the handler that follows `await verifyTypedData`, taken for
\* a payload whose signature checks out
AfterGoodSignature(p) ==
    /\ pc[p] = "v_sig"
    /\ pc'[p] # "v_sig"
    /\ SignatureChecksOut(p)

RejectedWith(r, text) == r.op = "verify" /\ ~r.ok /\ r.reason.text = text

\* C16: for an EVM payload that has passed the scheme, network, shape and
\* signature checks, verify answers isValid false with "Permit expired"
\* exactly when the time at the check is greater than validBefore; at
\* time = validBefore it does not.
C16_ExpiredExactlyAfterDeadline ==
    [][ \A p \in Procs :
          AfterGoodSignature(p) =>
            ( RejectedWith(resp'[p], "Permit expired")
              <=> now > Auth(p).validBefore ) ]_vars

\* a payload whose validBefore is the current second has passed the expiry
\* check (the clock starts at 1 and never goes back)
C16_Witness ==
    /\ pc[Main] \in {"v_balance", "done"}
    /\ Has(req[Main].payload.authorization)
    /\ Auth(Main).validBefore = 1
    /\ now = 1
    /\ OkIdx(Main, "expiry") # {}

\* C17: for an EVM payload that has passed the checks up to the deadline,
\* verify answers isValid false with "Insufficient amount" exactly when
\* authorization.value < paymentRequirements.amount; an equal value passes.
C17_AmountComparedWithRequiredAmount ==
    [][ \A p \in Procs :
          ( /\ AfterGoodSignature(p)
            /\ ~(now > Auth(p).validBefore)
            /\ Has(req[p].paymentRequirements.amount) )
          => ( RejectedWith(resp'[p], "Insufficient amount")
               <=> Auth(p).value < Val(req[p].paymentRequirements.amount) ) ]_vars

\* the step of the handler that follows the balance read
AfterBalanceRead(p) == pc[p] = "v_balance" /\ pc'[p] = "done"

ServerError(r) == r.op = "verify" /\ ~r.ok /\ r.reason.text = "Server error: "

\* C18: for an EVM payload that has passed every check before the balance
\* read, and whose balance read returns, verify answers isValid true when
\* the payer's balance is at least authorization.value, equality included,
\* and isValid false with "Insufficient balance" when it is lower.
C18_BalanceAtLeastValueAccepted ==
    [][ \A p \in Procs :
          (AfterBalanceRead(p) /\ ~ServerError(resp'[p])) =>
            LET balance == chain[loc[p].label].bal[Auth(p).from]
            IN  /\ balance >= Auth(p).value =>
                     /\ resp'[p].ok
                     /\ resp'[p].payer = Auth(p).from
                     /\ resp'[p].reason = NullReason
                /\ balance < Auth(p).value =>
                     RejectedWith(resp'[p], "Insufficient balance") ]_vars

\* verify has accepted a payer who holds exactly authorization.value
C18_Witness ==
    /\ pc[Main] = "done"
    /\ IsEvmVerify(Main)
    /\ resp[Main].ok
    /\ OkIdx(Main, "balance") # {}
    /\ chain[resolveEvmNetwork(req[Main].accepted.network)].bal[Auth(Main).from]
         = Auth(Main).value

\* the balance read of the handler raised (RPC timeout, node error)
BalanceReadRaised(p) ==
    /\ pc[p] = "done"
    /\ resp[p].op = "verify"
    /\ log[p] # <<>>
    /\ log[p][Len(log[p])].call = "balance"
    /\ log[p][Len(log[p])].dest = NoAddr

\* the message of the error the failed read raised
ReadError(p) ==
    IF Has(req[p].payload.authorization)
    THEN "readContract failed" ELSE "token account lookup failed"

\* C19: when the balance read raises, verify answers with status 500,
\* isValid false and reason "Server error: " followed by the error's
\* message, never with "Insufficient balance".
C19_ReadFailureIsServerError ==
    \A p \in Procs :
        BalanceReadRaised(p) =>
            /\ resp[p].status = 500
            /\ ~resp[p].ok
            /\ resp[p].reason = Reason("Server error: ", <<ReadError(p)>>)
            /\ resp[p].reason.text # "Insufficient balance"

\* the read raised for a payer whose balance is below the value
C19_Witness ==
    /\ BalanceReadRaised(Main)
    /\ Has(req[Main].payload.authorization)
    /\ chain[resolveEvmNetwork(req[Main].accepted.network)].bal[Auth(Main).from]
         < Auth(Main).value

\* the kind of failure a reason string of verify reports
ReasonCategory(text) ==
    CASE text \in {"Invalid permit signature",
                   "Permit signature verification failed"} -> "SignatureInvalid"
      [] text = "Server error: " -> "InternalError"
      [] OTHER -> "Other"

\* the step of the handler that follows `await verifyTypedData`, taken for
\* a payload whose signature does not check out (false, or an exception)
AfterBadSignature(p) ==
    /\ pc[p] = "v_sig"
    /\ pc'[p] # "v_sig"
    /\ ~SignatureChecksOut(p)

\* C20: when the signature verification of an EVM payload returns false or
\* raises, verify answers normally (status 200) with isValid false,
\* payer = authorization.from and a reason of the signature-invalid kind in
\* both cases, never the server-error answer of the outer catch; the
\* handler is done and has evaluated no expiry, amount, recipient or
\* balance check.
C20_BadSignatureIsNormalRejection ==
    [][ \A p \in Procs :
          AfterBadSignature(p) =>
            /\ pc'[p] = "done"
            /\ resp'[p].op = "verify"
            /\ resp'[p].status = 200
            /\ ~resp'[p].ok
            /\ resp'[p].payer = Auth(p).from
            /\ ReasonCategory(resp'[p].reason.text) = "SignatureInvalid"
            /\ log'[p][Len(log'[p])] = Check("signature", FALSE)
            /\ \A i \in 1..Len(log'[p]) :
                 log'[p][i].call \notin {"expiry", "amount", "recipient", "balance"} ]_vars

\* verifyTypedData raised on a signature it could not parse, and verify has
\* answered with the reason of the inner catch
C20_Witness ==
    /\ pc[Main] = "done"
    /\ IsEvmVerify(Main)
    /\ verifyTypedData(Auth(Main).from,
                       permitDomain(req[Main], resolveEvmNetwork(req[Main].accepted.network)),
                       permitMessage(Auth(Main)), req[Main].payload.signature) = "throws"
    /\ resp[Main] = SignatureCheckRaised(req[Main], Auth(Main).from)

(***************************************************************************)
(* Properties of the answers.                                              *)
(***************************************************************************)
\* C21: a real-mode EVM settle that has answered success reports the hash
\* that its transferFrom submission returned, never the hash of its permit,
\* and it has answered only after its wait for a receipt of that transferFrom
\* transaction returned, the receipt being on the chain.
C21_ReportsConfirmedTransferHash ==
    \A p \in Procs :
        ( /\ realMode
          /\ pc[p] = "done"
          /\ resp[p].op = "settle"
          /\ IsEvmSettle(p)
          /\ resp[p].ok )
        => /\ resp[p].transaction.kind = "chain"
           /\ \E i \in OkIdx(p, "transferFrom") :
                /\ log[p][i].hash = resp[p].transaction.hash
                /\ \E j \in OkIdx(p, "waitTransfer") :
                     j > i /\ log[p][j].hash = log[p][i].hash
           /\ \A i \in Idx(p, "permit") : log[p][i].hash # resp[p].transaction.hash
           /\ HasReceipt(chain[loc[p].label], resp[p].transaction.hash)

C21_Witness ==
    /\ realMode
    /\ pc[Main] = "done"
    /\ resp[Main].op = "settle"
    /\ IsEvmSettle(Main)
    /\ resp[Main].ok
    /\ OkIdx(Main, "permit") # {}
    /\ ReceiptStatus(loc[Main].label, resp[Main].transaction.hash) = {"success"}

\* verify has answered
VerifyAnswered(p) == pc[p] = "done" /\ resp[p].op = "verify"

\* C22: every verify response has the fields isValid, payer and
\* invalidReason (a payer that is undefined is left out of the JSON body);
\* invalidReason is null exactly when isValid is true and a non-empty string
\* otherwise; when the payload has an authorization and the request is past
\* the shape check, payer is authorization.from; payer is "unknown" only
\* when the payload has no authorization to take it from.
C22_VerifyResponseShape ==
    \A p \in Procs :
        VerifyAnswered(p) =>
            /\ resp[p].payer # NoAddr
            /\ resp[p].ok <=> resp[p].reason = NullReason
            /\ ~resp[p].ok => resp[p].reason.text \notin {"", "<null>", "<absent>"}
            /\ (Has(req[p].payload.authorization) /\ OkIdx(p, "shape") # {})
                 => resp[p].payer = Auth(p).from
            /\ (resp[p].payer = Unknown /\ resolveEvmNetwork(req[p].accepted.network) # NoLabel)
                 => ~Has(req[p].payload.authorization)

\* settle has answered
SettleAnswered(p) == pc[p] = "done" /\ resp[p].op = "settle"

\* the payer the payload names: authorization.from, or `from` of a Solana payload
PayloadPayer(r) ==
    IF Has(r.payload.authorization) THEN Val(r.payload.authorization).from
    ELSE r.payload.from

\* C23: every settle response has success, payer, transaction and network,
\* and errorReason only on failure: a failure has transaction "" and a
\* non-empty errorReason; a success has a non-empty transaction, no
\* errorReason, the payload's payer as payer and the request's
\* accepted.network as network.
C23_SettleResponseShape ==
    \A p \in Procs :
        SettleAnswered(p) =>
            /\ resp[p].payer # NoAddr
            /\ resp[p].network # <<>>
            /\ ~resp[p].ok =>
                 /\ resp[p].transaction = TxEmpty
                 /\ resp[p].reason.text \notin {"", "<null>", "<absent>"}
            /\ resp[p].ok =>
                 /\ resp[p].transaction.kind \in {"chain", "simulated"}
                 /\ resp[p].reason = NoReason
                 /\ resp[p].payer = PayloadPayer(req[p])
                 /\ resp[p].network = req[p].accepted.network

\* handler p takes a step of verifyPayment
VerifyStep(p) ==
    \/ pc[p] \in {"v_sig", "v_balance", "v_solana"}  /\ pc'[p] # pc[p]
    \/ pc'[p] \in {"v_sig", "v_balance", "v_solana"} /\ pc'[p] # pc[p]
    \/ pc'[p] = "done" /\ resp'[p].op = "verify" /\ calls' # calls

\* C24: no step of a verify invocation changes the state of any chain or
\* submits a transaction, also while a settle is in flight; the invocation
\* queries a balance at most once.
C24_VerifyLeavesChainUnchanged ==
    [][ \A p \in Procs :
          VerifyStep(p) =>
            /\ chain' = chain
            /\ nextTx' = nextTx
            /\ Cardinality({i \in 1..Len(log'[p]) : log'[p][i].call = "balance"}) <= 1
            /\ \A i \in 1..Len(log'[p]) :
                 log'[p][i].call \in {"scheme", "network", "shape", "signature",
                                      "expiry", "amount", "recipient", "balance"} ]_vars

\* verify has accepted after its balance read while the chain holds a
\* transaction of a settle
C24_Witness ==
    /\ VerifyAnswered("h1")
    /\ Has(req["h1"].payload.authorization)
    /\ resp["h1"].ok
    /\ OkIdx("h1", "balance") # {}
    /\ \E l \in EvmLabels : chain[l].pool # {} \/ chain[l].receipts # {}

(***************************************************************************)
(* Properties of /supported.                                               *)
(***************************************************************************)
SupportedAnswered(p) == pc[p] = "done" /\ resp[p].op = "supported"

FamilyOf(namespace) ==
    IF namespace = "solana:*" THEN {Solana} ELSE EvmLabels

EnabledIn(c, namespace) == {l \in FamilyOf(namespace) : ~Disabled(c, l)}

\* C25: in the /supported document a network is listed in kinds, once, with
\* x402Version 2, scheme "exact" and its CAIP-2 id, exactly when both its
\* facilitator key and its facilitator address are configured; signers has
\* the key eip155:* (solana:*) exactly when a network of that family is
\* enabled, and its value lists, without duplicates, the facilitator
\* addresses of the enabled networks of the family.
C25_SupportedReflectsEnabledNetworks ==
    \A p \in Procs :
        SupportedAnswered(p) =>
            LET kinds   == resp[p].kinds
                signers == resp[p].signers
            IN  /\ \A l \in Labels :
                     Cardinality({i \in 1..Len(kinds) : kinds[i].network = NetworkIdOf(l)})
                       = IF Disabled(cfg, l) THEN 0 ELSE 1
                /\ \A i \in 1..Len(kinds) :
                     /\ kinds[i].x402Version = 2
                     /\ kinds[i].scheme = "exact"
                     /\ \E l \in Labels : kinds[i].network = NetworkIdOf(l)
                /\ DOMAIN signers \subseteq {"eip155:*", "solana:*"}
                /\ \A ns \in {"eip155:*", "solana:*"} :
                     /\ ns \in DOMAIN signers <=> EnabledIn(cfg, ns) # {}
                     /\ ns \in DOMAIN signers =>
                          /\ {signers[ns][i] : i \in 1..Len(signers[ns])}
                               = {cfg.address[l] : l \in EnabledIn(cfg, ns)}
                          /\ \A i, j \in 1..Len(signers[ns]) :
                               signers[ns][i] = signers[ns][j] => i = j

\* two enabled EVM networks share one facilitator address, a third has an
\* address but no key, and Solana is not configured
C25_Witness ==
    /\ SupportedAnswered(Main)
    /\ cfg.address["Base Mainnet"] = cfg.address["Base Sepolia"]
    /\ {"Base Mainnet", "Base Sepolia"} \subseteq EnabledIn(cfg, "eip155:*")
    /\ cfg.address["Radius Mainnet"] # "" /\ cfg.privateKey["Radius Mainnet"] = ""
    /\ "solana:*" \notin DOMAIN resp[Main].signers
    /\ Len(resp[Main].signers["eip155:*"]) = 1

(***************************************************************************)
(* apiKeyMiddleware (middleware/apiKey.ts): registered in front of         *)
(* verifyPayment and settlePayment.  The handler instance p is at          *)
(* "mw_fetch" while isValidApiKey awaits the dashboard and at "done" once   *)
(* the middleware has answered; next() enters the route's handler at once. *)
(* The dashboard and the network between it and the facilitator are the    *)
(* environment: each validation request ends in one of FetchOutcomes.      *)
(***************************************************************************)
MAINNET_NETWORKS == {NetBase, NetRadius, NetSolana}

CACHE_TTL_MS == 5 * 60 * 1000

\* Date.now(): milliseconds, the clock of the model counts seconds
DateNow(time) == time * 1000

\* the request with its X-API-Key header: Absent or Some(string)
GatedRequest(r, header) == r @@ [xApiKey |-> header]

\* req.body?.paymentPayload?.accepted?.network
GateNetwork(r) == IF r.hasPayload THEN r.accepted.network ELSE NoNetwork

GateAnswer(status, error) ==
    [NoResponse EXCEPT !.op = "gate", !.status = status,
                       !.reason = Reason(error, <<>>)]

NextCalled == Check("next", TRUE)

\* record of one key validation: by the dashboard ("fetch", with how the
\* request ended) or by the cache ("cache", with the stored verdict)
Validated(source, outcome) ==
    Call(source, outcome # "raises", NoNonce, outcome, NoHash)

\* how a validation request can end: a 2xx body with valid true or false, a
\* non-2xx status, or a rejected fetch (network error, 5 s timeout, or a
\* body that is not JSON)
FetchOutcomes == {"valid", "invalid", "not_ok", "raises"}

\* what isValidApiKey returns when the request raised: the catch block
isValidApiKey_FailsOpen(outcome) == outcome \in {"valid", "raises"}

\* what isValidApiKey returns after a validation request that ended in
\* `outcome`
isValidApiKey(outcome) == outcome = "valid"

\* the .then callback of the middleware
AfterValidation_AdmitsInvalid(valid, issued) ==
    [log |-> Append(issued, NextCalled), resp |-> NoResponse,
     next |-> "next"]

AfterValidation(valid, issued) ==
    IF ~valid
    THEN [log |-> issued, resp |-> GateAnswer(403, "Invalid or inactive API key."),
          next |-> "done"]
    ELSE [log |-> Append(issued, NextCalled), resp |-> NoResponse,
          next |-> "next"]

\* mutant: an entry still counts at the instant it expires
CacheFresh_AtExpiry(cache, apiKey, time) ==
    /\ Has(cache[apiKey])
    /\ DateNow(time) <= Val(cache[apiKey]).expiresAt

\* cached && Date.now() < cached.expiresAt
CacheFresh(cache, apiKey, time) ==
    /\ Has(cache[apiKey])
    /\ DateNow(time) < Val(cache[apiKey]).expiresAt

\* next(): express runs the handler registered behind the middleware on
\* `path` (app.post('/verify', apiKeyMiddleware, verifyPayment),
\* app.post('/settle', apiKeyMiddleware, settlePayment)) up to the handler's
\* first awaited call; `issued` is what the middleware has recorded
Routed(path, r, c, issued) ==
    IF path = "/verify"
    THEN LET e == VerifyEntry(r)
         IN  [log |-> issued \o e.checks, resp |-> e.resp, label |-> e.label,
              next |-> e.next]
    ELSE LET e == SettleEntry(r, c)
         IN  [log |-> issued, resp |-> e.resp, label |-> e.label, next |-> e.next]

\* where the request is once the middleware has decided g: answered,
\* awaiting the dashboard, or inside the handler that next() entered
AfterGate(path, r, c, g) ==
    IF g.next = "next" THEN Routed(path, r, c, g.log)
    ELSE [log |-> g.log, resp |-> g.resp, label |-> NoLabel, next |-> g.next]

\* the middleware up to its first awaited call
GateEntry(r, c, cache, time) ==
    LET network == GateNetwork(r)
        apiKey  == r.xApiKey
        pass    == [log |-> <<NextCalled>>, resp |-> NoResponse, next |-> "next"]
    IN  IF ~c.enableApiKeyGating THEN pass
        ELSE IF network \in {NoNetwork, NetEmpty} \/ network \notin MAINNET_NETWORKS
        THEN pass
        ELSE IF ~Has(apiKey) \/ Val(apiKey) = ""
        THEN [log |-> <<>>,
              resp |-> GateAnswer(401, "API key required for mainnet networks. Get yours at dashboard.stablecoin.xyz"),
              next |-> "done"]
        ELSE IF CacheFresh(cache, Val(apiKey), time)
        THEN LET valid == Val(cache[Val(apiKey)]).valid
             IN  AfterValidation(valid,
                    <<Validated("cache", IF valid THEN "valid" ELSE "invalid")>>)
        ELSE [log |-> <<>>, resp |-> NoResponse, next |-> "mw_fetch"]

\* a request of the set `requests` arrives at POST `path`
apiKeyMiddleware(p, path, requests) ==
    /\ pc[p] \in {"idle", "done"}
    /\ calls < MaxCalls
    /\ \E r \in requests :
         LET g == AfterGate(path, r, cfg, GateEntry(r, cfg, keyCache, now))
         IN  /\ req' = [req EXCEPT ![p] = r]
             /\ pc' = [pc EXCEPT ![p] = g.next]
             /\ resp' = [resp EXCEPT ![p] = g.resp]
             /\ log' = [log EXCEPT ![p] = g.log]
             /\ loc' = [loc EXCEPT ![p] = [NoLocals EXCEPT !.label = g.label]]
    /\ calls' = calls + 1
    /\ UNCHANGED <<cfg, portState, server, keyCache, realMode, now, chain, nextTx>>

\* the awaited validation request ends; isValidApiKey stores what the
\* dashboard said and the middleware answers or calls next()
ValidationEnds(p, path) ==
    /\ pc[p] = "mw_fetch"
    /\ \E outcome \in FetchOutcomes :
         LET apiKey == Val(req[p].xApiKey)
             valid  == isValidApiKey(outcome)
             fetch  == Validated("fetch", outcome)
             g      == AfterGate(path, req[p], cfg,
                                 AfterValidation(valid, Append(log[p], fetch)))
         IN  /\ keyCache' =
                   IF outcome = "raises" THEN keyCache
                   ELSE [keyCache EXCEPT ![apiKey] =
                           Some([valid |-> valid,
                                 expiresAt |-> DateNow(now) + CACHE_TTL_MS])]
             /\ pc' = [pc EXCEPT ![p] = g.next]
             /\ resp' = [resp EXCEPT ![p] = g.resp]
             /\ log' = [log EXCEPT ![p] = g.log]
             /\ loc' = [loc EXCEPT ![p] = [NoLocals EXCEPT !.label = g.label]]
    /\ UNCHANGED <<cfg, portState, server, realMode, now, chain, nextTx, calls, req>>

\* instants around the multiples of the cache lifetime
ClockSamples ==
    {k * (CACHE_TTL_MS \div 1000) + j : k \in 0..MaxNow, j \in 0..1} \ {0}

Elapse ==
    /\ \E t \in ClockSamples : t > now /\ now' = t
    /\ UNCHANGED <<cfg, portState, server, keyCache, realMode, chain, nextTx, calls,
                   pc, req, loc, log, resp>>

GateNetworks ==
    {NoNetwork, NetEmpty, NetBase, NetRadius, NetSolana, NetBaseSepolia,
     NetRadiusTest, NetSolanaOther, NetUnknownEvm}

GateRequests ==
    { GatedRequest(r, h) : r \in {RoutingRequest(net) : net \in GateNetworks \cap NetworkIds}
                                   \cup {BlankRequest},
                           h \in {Absent, Some("key-1")} }
    \cup { GatedRequest(RoutingRequest(NetBase), h) : h \in {Some(""), Some("key-2")} }

InitApiKey ==
    /\ cfg \in {Config({}) @@ [enableApiKeyGating |-> g] : g \in BOOLEAN}
    /\ realMode = FALSE
    /\ now = 1
    /\ chain = [l \in Labels |-> InitChain(l, 0)]
    /\ InitHandlers

\* one request on /verify and one on /settle, each up to the first awaited
\* call of its handler
NextApiKey ==
    \/ apiKeyMiddleware("h1", "/verify", GateRequests)
    \/ apiKeyMiddleware("h2", "/settle", GateRequests)
    \/ ValidationEnds("h1", "/verify")
    \/ ValidationEnds("h2", "/settle")
    \/ Elapse

SpecApiKey == InitApiKey /\ [][NextApiKey]_vars

(***************************************************************************)
(* Properties of the API-key gate.                                         *)
(***************************************************************************)
GateFinished(p) == pc[p] \notin {"idle", "mw_fetch"} /\ "xApiKey" \in DOMAIN req[p]

NextCalls(p) == Cardinality(Idx(p, "next"))

\* the verdicts of the validations recorded for this request
Verdicts(p) ==
    {log[p][i].dest : i \in Idx(p, "fetch") \cup Idx(p, "cache")}

\* next() was called once: the request is with the handler
PassedOn(p) == NextCalls(p) = 1 /\ resp[p].op # "gate"

Refused(p, status) ==
    pc[p] = "done" /\ NextCalls(p) = 0 /\ resp[p].op = "gate" /\ resp[p].status = status

IsMainnet(r) == r.hasPayload /\ r.accepted.network \in {NetBase, NetRadius, NetSolana}

\* C26: with gating enabled, a request whose network is absent or not one of
\* the three mainnet ids is passed on by one call of next() with no key
\* looked at; a mainnet request without an X-API-Key header is answered 401
\* and next() is not called; a mainnet request whose key is validated as
\* invalid is answered 403 and next() is not called; a mainnet request whose
\* key is validated as valid is passed on by exactly one call of next().
C26_GateDecidesByNetworkAndKey ==
    \A p \in Procs :
        (GateFinished(p) /\ cfg.enableApiKeyGating) =>
            /\ ~IsMainnet(req[p]) => (PassedOn(p) /\ Verdicts(p) = {})
            /\ (IsMainnet(req[p]) /\ ~Has(req[p].xApiKey)) =>
                   (Refused(p, 401) /\ Verdicts(p) = {})
            /\ (IsMainnet(req[p]) /\ Verdicts(p) = {"invalid"}) => Refused(p, 403)
            /\ (IsMainnet(req[p]) /\ Verdicts(p) = {"valid"}) => PassedOn(p)

C26_Witness ==
    /\ cfg.enableApiKeyGating
    /\ GateFinished("h1") /\ GateFinished("h2")
    /\ req["h1"].accepted.network = NetBase /\ req["h2"].accepted.network = NetBase
    /\ req["h1"].xApiKey = Some("key-1") /\ req["h2"].xApiKey = Some("key-2")
    /\ Verdicts("h1") = {"valid"} /\ PassedOn("h1")
    /\ Verdicts("h2") = {"invalid"} /\ Refused("h2", 403)

\* the validation request of this mainnet request did not complete
ValidationRaised(p) ==
    /\ GateFinished(p)
    /\ cfg.enableApiKeyGating
    /\ IsMainnet(req[p])
    /\ \E i \in Idx(p, "fetch") : ~log[p][i].ok

\* C27: a mainnet request whose validation request to the dashboard raised
\* (network error or timeout) is answered 403, next() is never called, and
\* the failure is not stored as a verdict on the key.
C27_ValidationFailsClosed ==
    \A p \in Procs :
        ValidationRaised(p) => (Refused(p, 403) /\ Idx(p, "cache") = {})

C27_Witness ==
    /\ ValidationRaised(Main)
    /\ Refused(Main, 403)
    /\ req[Main].xApiKey = Some("key-1")
    /\ keyCache["key-1"] = Absent

(***************************************************************************)
(* Requests without a paymentPayload.                                      *)
(***************************************************************************)
HandlerAnswered(p) == pc[p] = "done" /\ resp[p].op \in {"verify", "settle"}

ClientError(r) == r.status >= 400 /\ r.status <= 499

\* C28: a /verify or /settle request whose body has no paymentPayload is
\* answered with a 4xx status and a failure body with a non-empty reason,
\* and no external call is made for it.
C28_MissingPayloadIsClientError ==
    \A p \in Procs :
        (HandlerAnswered(p) /\ ~req[p].hasPayload) =>
            /\ ClientError(resp[p])
            /\ ~resp[p].ok
            /\ resp[p].reason \notin {NoReason, NullReason}
            /\ resp[p].reason.text # ""
            /\ log[p] = <<>>

\* the part of C28 that the code meets: a failure body and no external call
C28_MissingPayloadRejectedOffChain ==
    \A p \in Procs :
        (HandlerAnswered(p) /\ ~req[p].hasPayload) =>
            /\ resp[p].status \in {400, 500}
            /\ (resp[p].op = "settle") = ClientError(resp[p])
            /\ ~resp[p].ok
            /\ resp[p].reason.text = "Missing paymentPayload"
            /\ log[p] = <<>>

(***************************************************************************)
(* startServer (index.ts): app.listen(port) and the 'error' listener that  *)
(* calls startServer(port + 1).  What a listen on a port meets is the      *)
(* operating system's answer, fixed while the server starts: the port is   *)
(* free, it is in use (EADDRINUSE), or the listen fails otherwise (EACCES, *)
(* a privileged port).  A port above MaxPort is refused by listen itself.  *)
(***************************************************************************)
Ports == 1..MaxPort

ListenOutcomes == {"free", "EADDRINUSE", "EACCES"}

\* the error listener: which error codes lead to another startServer call
RetriesOn_AnyError(code) == TRUE

RetriesOn(code) == code = "EADDRINUSE"

\* startServer(port): app.listen(port, ...) has been called
startServer(s, port) ==
    IF port \in Ports
    THEN [state |-> "binding", port |-> port, tried |-> Append(s.tried, port)]
    ELSE [state |-> "crashed", port |-> port, tried |-> Append(s.tried, port)]

\* startServer(config.port), at module load
StartServer ==
    /\ server.state = "off"
    /\ \E port \in Ports : server' = startServer(server, port)
    /\ UNCHANGED <<cfg, portState, keyCache, realMode, now, chain, nextTx, calls,
                   pc, req, loc, log, resp>>

\* the listen succeeded: the 'listening' callback runs
Listening ==
    /\ server.state = "binding"
    /\ portState[server.port] = "free"
    /\ server' = [server EXCEPT !.state = "listening"]
    /\ UNCHANGED <<cfg, portState, keyCache, realMode, now, chain, nextTx, calls,
                   pc, req, loc, log, resp>>

\* the listen failed: the 'error' listener runs; its throw ends the process
ListenError ==
    /\ server.state = "binding"
    /\ portState[server.port] # "free"
    /\ server' = IF RetriesOn(portState[server.port])
                 THEN startServer(server, server.port + 1)
                 ELSE [server EXCEPT !.state = "crashed"]
    /\ UNCHANGED <<cfg, portState, keyCache, realMode, now, chain, nextTx, calls,
                   pc, req, loc, log, resp>>

InitStart ==
    /\ cfg = Config({})
    /\ realMode = FALSE
    /\ now = 1
    /\ chain = [l \in Labels |-> InitChain(l, 0)]
    /\ InitRequests
    /\ portState \in [Ports -> ListenOutcomes]
    /\ server = NotStarted
    /\ keyCache = EmptyCache

NextStart == StartServer \/ Listening \/ ListenError

\* every event the event loop holds is eventually delivered
SpecStart == InitStart /\ [][NextStart]_vars /\ WF_vars(NextStart)

(***************************************************************************)
(* Properties of the port search.                                          *)
(***************************************************************************)
StartPort == server.tried[1]

Started == server.state # "off"

Stopped == server.state \in {"listening", "crashed"}

\* ports tried are p, p+1, p+2, ... and each but the last was in use
TriedInOrder ==
    Started =>
        /\ \A i \in 1..Len(server.tried) : server.tried[i] = StartPort + i - 1
        /\ \A i \in 1..(Len(server.tried) - 1) :
               portState[server.tried[i]] = "EADDRINUSE"
        /\ server.port = server.tried[Len(server.tried)]

\* a listen error other than address-in-use ends the search at that port
OtherErrorEndsSearch ==
    \A i \in 1..Len(server.tried) :
        (server.tried[i] \in Ports
         /\ portState[server.tried[i]] \notin {"free", "EADDRINUSE"})
            => (i = Len(server.tried) /\ server.state \in {"binding", "crashed"})

FreeFrom(p) == {q \in Ports : q >= p /\ portState[q] = "free"}

Smallest(S) == CHOOSE q \in S : \A r \in S : q <= r

ListeningOn(q) == server.state = "listening" /\ server.port = q

\* free port q with every port from the first one tried up to q in use
FirstAfterPortsInUse(q) ==
    /\ Started
    /\ q \in FreeFrom(StartPort)
    /\ \A r \in StartPort..(q - 1) : portState[r] = "EADDRINUSE"

\* C29: startServer(p) tries p, p+1, p+2, ... in increasing order and moves
\* on only after an address-in-use error; any other listen error is not
\* retried; and whenever some port >= p is free, the search ends with the
\* server listening on the smallest free port >= p.
C29_ListensOnSmallestFreePort ==
    /\ TriedInOrder
    /\ OtherErrorEndsSearch
    /\ (Stopped /\ FreeFrom(StartPort) # {}) =>
           ListeningOn(Smallest(FreeFrom(StartPort)))

\* C29 as amended: startServer(p) tries p, p+1, p+2, ... in increasing
\* order and moves on only after an address-in-use error; any other listen
\* error is not retried and ends the search; and whenever some port q >= p
\* is free and every port from p up to q is in use, the server eventually
\* listens on q, the smallest free port >= p, and on no other port.
C29_ListensOnFirstFreePortAfterPortsInUse ==
    /\ [](TriedInOrder /\ OtherErrorEndsSearch)
    /\ [](server.state = "listening" =>
              ListeningOn(Smallest(FreeFrom(StartPort))))
    /\ \A q \in Ports : (FirstAfterPortsInUse(q) ~> ListeningOn(q))

C29_Witness ==
    /\ Len(server.tried) = 3
    /\ ListeningOn(StartPort + 2)
    /\ FirstAfterPortsInUse(StartPort + 2)

(***************************************************************************)
(* Facilitator nonces of concurrent settles.                               *)
(***************************************************************************)
\* nonces of the facilitator account carried by the transactions this
\* invocation has handed to writeContract
SubmittedNonces(p) ==
    {log[p][i].nonce : i \in Idx(p, "permit") \cup Idx(p, "transferFrom")}

\* C30: for any interleaving of real-mode settle invocations on one EVM
\* network, no two invocations submit transactions carrying the same nonce
\* of the facilitator account.
C30_NoSharedFacilitatorNonce ==
    \A p \in Procs : \A q \in Procs \ {p} :
        SubmittedNonces(p) \cap SubmittedNonces(q) = {}

\* what the code gives instead: the invocations that read the pending count
\* before either has submitted carry the same nonces, and of two
\* transactions with one nonce the node takes at most one
C30_SharedNonceTakenOnce ==
    \A p \in Procs : \A q \in Procs \ {p} :
        \A i \in OkIdx(p, "permit") \cup OkIdx(p, "transferFrom") :
            \A j \in OkIdx(q, "permit") \cup OkIdx(q, "transferFrom") :
                log[p][i].nonce # log[q][j].nonce

(***************************************************************************)
(* The routes as registered, with their handlers' later steps.             *)
(***************************************************************************)
\* a chain id written with a leading zero
NetBasePadded == Eip155Prefix \o <<"0", "8", "4", "5", "3">>

GatedNetworks ==
    {NetBase, NetBaseSepolia, NetRadius, NetSolana, NetSolanaOther, NetBasePadded}

GatedRoutingRequests ==
    { GatedRequest(RoutingRequest(net), h) :
        net \in GatedNetworks, h \in {Absent, Some("key-1")} }

InitGated ==
    /\ cfg \in {Config({}) @@ [enableApiKeyGating |-> g] : g \in BOOLEAN}
    /\ realMode \in BOOLEAN
    /\ now = 1
    /\ chain = [l \in Labels |-> InitChain(l, MaxBal)]
    /\ InitHandlers

\* one request on /verify and one on /settle
NextGated ==
    \/ apiKeyMiddleware("h1", "/verify", GatedRoutingRequests)
    \/ apiKeyMiddleware("h2", "/settle", GatedRoutingRequests)
    \/ ValidationEnds("h1", "/verify")
    \/ ValidationEnds("h2", "/settle")
    \/ VerifySteps("h1")
    \/ SettleSteps("h2")
    \/ \E l \in EvmLabels : Mine(l)

SpecGated == InitGated /\ [][NextGated]_vars

MainnetLabels == {"Base Mainnet", "Radius Mainnet", Solana}

\* the handler has taken the request as one for a mainnet network
RoutedToMainnet(p) ==
    /\ pc[p] \notin {"idle", "mw_fetch"}
    /\ loc[p].label \in MainnetLabels

\* C31: with gating enabled, every request that verifyPayment or
\* settlePayment takes as one for Base mainnet, Radius mainnet or Solana
\* mainnet has had its API key validated as valid by the middleware first.
C31_MainnetOnlyAfterKeyValidation ==
    \A p \in Procs :
        (cfg.enableApiKeyGating /\ RoutedToMainnet(p)) => Verdicts(p) = {"valid"}

\* what the code gives: the guarantee holds for the three listed ids only
C31_ListedIdsOnlyAfterKeyValidation ==
    \A p \in Procs :
        (cfg.enableApiKeyGating /\ RoutedToMainnet(p)
         /\ req[p].accepted.network \in MAINNET_NETWORKS) => Verdicts(p) = {"valid"}

(***************************************************************************)
(* Execution status of the settlement transactions.                        *)
(***************************************************************************)
Executed(label, hash) ==
    [hash |-> hash, status |-> "success"] \in chain[label].receipts

RealEvmSuccess(p) ==
    SettleAnswered(p) /\ realMode /\ IsEvmSettle(p) /\ resp[p].ok

\* C32: a real-mode EVM settle answers success:true only if its permit and
\* its transferFrom were both included with a successful execution status;
\* a transaction that was mined but reverted never leads to success:true.
C32_SuccessOnlyAfterSuccessfulExecution ==
    \A p \in Procs :
        RealEvmSuccess(p) =>
            /\ \E i \in OkIdx(p, "permit") : Executed(loc[p].label, log[p][i].hash)
            /\ \E i \in OkIdx(p, "transferFrom") :
                   Executed(loc[p].label, log[p][i].hash)

\* what the code gives: both transactions were included, with any status
C32_SuccessOnlyAfterInclusion ==
    \A p \in Procs :
        RealEvmSuccess(p) =>
            /\ \E i \in OkIdx(p, "permit") :
                   HasReceipt(chain[loc[p].label], log[p][i].hash)
            /\ \E i \in OkIdx(p, "transferFrom") :
                   HasReceipt(chain[loc[p].label], log[p][i].hash)

(***************************************************************************)
(* verify, then a real-mode settle of the payload that verify accepted,    *)
(* with nothing else acting on the chain and the clock standing still.     *)
(***************************************************************************)
HandoffRequests ==
    { Request(TRUE, "exact", NetBase,
              EvmPayload(Some(a), GoodSig(a, "Base Mainnet")),
              Requirements(Some(1), Some(1), Merchant, Some(TokenName),
                           Some(TokenVersion))) :
        a \in Authorizations }

\* the resource server settles what verify has just accepted
SettleVerified(p, q) ==
    /\ pc[q] = "done" /\ resp[q].op = "verify" /\ resp[q].ok
    /\ pc[p] = "idle"
    /\ SettleBeginWith(p, {req[q]})

InitHandoff ==
    /\ cfg = Config({})
    /\ realMode = TRUE
    /\ now = 1
    /\ \E b \in 0..MaxBal : chain = [l \in Labels |-> InitChain(l, b)]
    /\ InitHandlers

NextHandoff ==
    \/ VerifyBeginWith("h1", HandoffRequests)
    \/ VerifySignature("h1")
    \/ VerifyBalance("h1")
    \/ SettleVerified("h2", "h1")
    \/ SettleGetNonce("h2")
    \/ SettlePermitSubmit("h2")
    \/ SettlePermitWait("h2")
    \/ SettleTransferSubmit("h2")
    \/ SettleTransferWait("h2")
    \/ Mine("Base Mainnet")

SpecHandoff == InitHandoff /\ [][NextHandoff]_vars

\* the calls settle is about to submit, as the asset contract sees them
PermitOf(p) ==
    Tx(nextTx, loc[p].pendingNonce, "permit", Auth(p).from, Auth(p).to, NoAddr,
       Auth(p).value, Auth(p).validBefore, req[p].payload.signature)

TransferOf(p) ==
    Tx(nextTx, loc[p].pendingNonce + 1, "transferFrom", Auth(p).from, Facilitator,
       req[p].paymentRequirements.payTo, Auth(p).value, Auth(p).validBefore, NullSig)

\* C33: when verify has answered isValid:true and only the settle of that
\* payload acts afterwards, the settle is not turned down by its own checks,
\* the asset contract accepts its permit and then its transferFrom, and so
\* the settle answers success:true unless an RPC call itself fails.
C33_VerifiedPaymentSettles ==
    LET p == "h2"
    IN  /\ pc[p] = "s_permit" =>
               PermitOk(chain[loc[p].label], loc[p].label, PermitOf(p), now)
        /\ pc[p] = "s_transfer" => TransferFromOk(chain[loc[p].label], TransferOf(p))
        /\ (pc[p] = "done" /\ resp[p].op = "settle" /\ ~resp[p].ok) => FailedIdx(p) # {}

\* what the code gives: the same, for authorizations that name the
\* facilitator as spender and carry the owner's current permit nonce
C33_VerifiedCurrentPermitSettles ==
    LET p == "h2"
    IN  (pc[p] \notin {"idle", "done"}
         /\ Auth(p).to = Facilitator /\ Auth(p).nonce = 0) =>
            /\ pc[p] = "s_permit" =>
                   PermitOk(chain[loc[p].label], loc[p].label, PermitOf(p), now)
            /\ pc[p] = "s_transfer" =>
                   TransferFromOk(chain[loc[p].label], TransferOf(p))

(***************************************************************************)
(* settle on its own: what it does with a payload nobody has verified.     *)
(***************************************************************************)
\* scheme "exact", a resolvable network with a configured key, an
\* authorization object and a string signature
EvmSettleable(r, c) ==
    /\ r.hasPayload
    /\ r.accepted.scheme = "exact"
    /\ r.accepted.network # NoNetwork
    /\ ~StartsWith(r.accepted.network, SolanaPrefix)
    /\ resolveEvmNetwork(r.accepted.network) # NoLabel
    /\ c.privateKey[resolveEvmNetwork(r.accepted.network)] # ""
    /\ Has(r.payload.authorization)
    /\ r.payload.signature.form \in {"hex65", "short"}

\* writeContract was called for the permit: the call is on record, or it
\* raised while encoding a signature too short to slice into r, s, v
PermitSubmissionReached(p) ==
    \/ Idx(p, "permit") # {}
    \/ /\ req[p].payload.signature.form = "short"
       /\ resp[p].reason = Reason("invalid permit arguments", <<>>)

\* C34: for an EVM payload with scheme "exact", a resolvable network with a
\* configured key, an authorization object and a string signature, settle
\* goes on to submit the permit in real mode and answers success:true in
\* simulated mode, whatever the signature, the deadline, the amounts and the
\* payer's balance are, and with no verify call before it.
C34_SettleRepeatsNoValidation ==
    \A p \in Procs :
        (SettleAnswered(p) /\ EvmSettleable(req[p], cfg)) =>
            IF realMode
            THEN PermitSubmissionReached(p)
            ELSE resp[p].ok /\ resp[p].transaction = TxSimulated

(***************************************************************************)
(* /supported against the handlers' network resolution.                    *)
(***************************************************************************)
AdvertisedIds(p) ==
    {resp[p].kinds[i].network : i \in 1..Len(resp[p].kinds)}

\* the network the handlers take a well-formed request for `net` to
VerifyResolves(net) == VerifyEntry(RoutingRequest(net)).label

SettleResolves(net, c) ==
    IF StartsWith(net, SolanaPrefix) THEN Solana ELSE resolveEvmNetwork(net)

\* C35: every network id listed by /supported is resolved by verify and by
\* settle to the network it names, settle finds that network's credential,
\* and no id that the handlers resolve is missing from the list.
C35_AdvertisedIsResolvable ==
    SupportedAnswered(Main) =>
        /\ \A l \in Labels :
               NetworkIdOf(l) \in AdvertisedIds(Main) =>
                   /\ VerifyResolves(NetworkIdOf(l)) = l
                   /\ SettleResolves(NetworkIdOf(l), cfg) = l
                   /\ SettleEntry(RoutingRequest(NetworkIdOf(l)), cfg).label = l
        /\ \A net \in NetworkIds :
               VerifyResolves(net) # NoLabel => net \in AdvertisedIds(Main)

\* what the code gives with the default chain ids: the first half
C35_AdvertisedIdsResolve ==
    SupportedAnswered(Main) =>
        \A l \in Labels :
            NetworkIdOf(l) \in AdvertisedIds(Main) =>
                /\ VerifyResolves(NetworkIdOf(l)) = l
                /\ SettleEntry(RoutingRequest(NetworkIdOf(l)), cfg).label = l

(***************************************************************************)
(* C36: the recipient step of verify on EVM payloads.                      *)
(***************************************************************************)
\* the request r with another spender, signature and payTo
WithRecipient(r, to, sig, payTo) ==
    [r EXCEPT !.payload.authorization = Some([Val(@) EXCEPT !.to = to]),
              !.payload.signature = sig,
              !.paymentRequirements.payTo = payTo]

\* what verifyTypedData answers for the request r on the network labelled l
SignatureOutcome(r, l) ==
    LET a == Val(r.payload.authorization)
    IN  verifyTypedData(a.from, permitDomain(r, l), permitMessage(a), r.payload.signature)

RecipientAccounts == {Payer, Merchant, Facilitator, Stranger}

\* the signatures a client may send along with another spender
RecipientSigs(r, l) ==
    {r.payload.signature}
    \cup UNION { LET a == [Val(r.payload.authorization) EXCEPT !.to = to]
                 IN  {GoodSig(a, l), ForgedSig(a, l)} : to \in RecipientAccounts }

\* the requests that differ from r in authorization.to or in payTo and for
\* which the signature check answers as it does for r
RecipientVariants(r, l) ==
    { v \in { WithRecipient(r, to, sg, payTo) :
                to \in RecipientAccounts, payTo \in RecipientAccounts,
                sg \in RecipientSigs(r, l) } :
        SignatureOutcome(v, l) = SignatureOutcome(r, l) }

\* C36: for EVM payloads the recipient step of verify never rejects: no
\* verify response carries the reason "Invalid recipient", and a request that
\* names a payTo is taken through the same checks, with the same results and
\* the same isValid, as every request that differs from it only in
\* authorization.to or in payTo and has the same signature outcome.
C36_RecipientStepNeverRejects ==
    \A p \in Procs :
        /\ VerifyAnswered(p) => resp[p].reason.text # "Invalid recipient"
        /\ (pc[p] = "v_sig" /\ recipient(req[p]) # NoAddr) =>
             \A v \in RecipientVariants(req[p], loc[p].label) :
                 LET e == VerifyAfterSignature(req[p], loc[p].label, now)
                     f == VerifyAfterSignature(v, loc[p].label, now)
                 IN  /\ VerifyEntry(v).next = "v_sig"
                     /\ VerifyEntry(v).label = loc[p].label
                     /\ f.next = e.next
                     /\ f.checks = e.checks
                     /\ f.resp.ok = e.resp.ok
                     /\ f.resp.reason = e.resp.reason

\* a payment whose authorization names the facilitator and whose requirements
\* name the merchant passed the recipient step and was answered isValid:true
C36_Witness ==
    /\ VerifyAnswered(Main)
    /\ IsEvmVerify(Main)
    /\ resp[Main].ok
    /\ OkIdx(Main, "recipient") # {}
    /\ Auth(Main).to # req[Main].paymentRequirements.payTo

(***************************************************************************)
(* C37: the checks of settle that precede every chain interaction.         *)
(***************************************************************************)
\* the scheme of the request is not "exact"
SchemeUnsupported(r) == r.accepted.scheme # "exact"

\* accepted.network is an identifier outside the solana: family that names
\* none of the configured chains
NetworkUnresolved(r) ==
    /\ r.accepted.network # NoNetwork
    /\ ~StartsWith(r.accepted.network, SolanaPrefix)
    /\ resolveEvmNetwork(r.accepted.network) = NoLabel

\* the request names a configured EVM chain and its payload has no authorization
AuthorizationMissing(r) ==
    /\ r.accepted.network # NoNetwork
    /\ resolveEvmNetwork(r.accepted.network) # NoLabel
    /\ ~Has(r.payload.authorization)

\* accepted.network is missing, or is an identifier outside the solana:
\* family that names none of the configured chains
NetworkDoesNotResolve(r) ==
    \/ r.accepted.network = NoNetwork
    \/ NetworkUnresolved(r)

\* the text the claim requires of the reason: that of the first of the three
\* checks that fails
ClaimedReasonText(r) ==
    IF SchemeUnsupported(r) THEN "Unsupported scheme: "
    ELSE IF NetworkDoesNotResolve(r) THEN "Unknown network: "
    ELSE "Missing authorization data in payload"

\* C37 as claimed: a request with a payload whose scheme is not "exact",
\* whose network does not resolve, or whose EVM authorization is missing is
\* answered success:false with transaction "" and a reason naming the
\* scheme, the network or the missing authorization respectively, and the
\* invocation has made no RPC read and submitted no transaction.
C37_SettleRejectsBeforeChainInteraction ==
    \A p \in Procs :
        ( /\ resp[p].op = "settle" \/ pc[p] \notin {"idle", "done"}
          /\ req[p].hasPayload
          /\ \/ SchemeUnsupported(req[p])
             \/ NetworkDoesNotResolve(req[p])
             \/ AuthorizationMissing(req[p]) )
        => /\ SettleAnswered(p)
           /\ ~resp[p].ok
           /\ resp[p].transaction = TxEmpty
           /\ resp[p].reason.text = ClaimedReasonText(req[p])
           /\ log[p] = <<>>

\* the errorReason of the first check that fails; a missing network makes
\* the network check throw, and the reason is the TypeError's message
EarlyReason(r) ==
    IF SchemeUnsupported(r) THEN Reason("Unsupported scheme: ", <<r.accepted.scheme>>)
    ELSE IF r.accepted.network = NoNetwork
    THEN Reason("Cannot read properties of undefined (reading 'match')", <<>>)
    ELSE IF NetworkUnresolved(r) THEN Reason("Unknown network: ", r.accepted.network)
    ELSE Reason("Missing authorization data in payload", <<>>)

\* C37: settle checks the scheme, then the network, then the presence of the
\* authorization, before any chain interaction: a request with a payload
\* whose scheme is not "exact", whose network identifier is a string that
\* does not resolve, or whose EVM authorization is missing is answered
\* success:false with transaction "" and the reason of the first of these
\* checks that fails ("Unsupported scheme: ...", "Unknown network: ...",
\* "Missing authorization data in payload"); a request with scheme "exact"
\* and no network at all is answered success:false with transaction "" and
\* the message of the TypeError the network check throws, which does not
\* name the network; in every one of these cases the invocation has made no
\* RPC read and submitted no transaction.
C37_SettleRejectsEarlyWithoutChainInteraction ==
    \A p \in Procs :
        ( /\ resp[p].op = "settle" \/ pc[p] \notin {"idle", "done"}
          /\ req[p].hasPayload
          /\ \/ SchemeUnsupported(req[p])
             \/ NetworkDoesNotResolve(req[p])
             \/ AuthorizationMissing(req[p]) )
        => /\ SettleAnswered(p)
           /\ ~resp[p].ok
           /\ resp[p].status = 200
           /\ resp[p].transaction = TxEmpty
           /\ resp[p].reason = EarlyReason(req[p])
           /\ log[p] = <<>>

\* settle has rejected a request that fails the network check and the
\* authorization check with the reason of the network check
C37_Witness ==
    /\ SettleAnswered(Main)
    /\ ~SchemeUnsupported(req[Main])
    /\ NetworkUnresolved(req[Main])
    /\ ~Has(req[Main].payload.authorization)
    /\ resp[Main].reason = Reason("Unknown network: ", req[Main].accepted.network)
    /\ resp[Main].transaction = TxEmpty

(***************************************************************************)
(* C38: the result of a Solana settle.                                     *)
(***************************************************************************)
\* the request is handed to settleSolanaPayment
SolanaSettle(r) ==
    /\ r.hasPayload
    /\ r.accepted.scheme = "exact"
    /\ r.accepted.network # NoNetwork
    /\ StartsWith(r.accepted.network, SolanaPrefix)

\* the one transfer of the invocation was sent to the payload's destination
\* and then confirmed, under the signature h
SentAndConfirmed(p, h) ==
    /\ Cardinality(Idx(p, "sendTransaction")) = 1
    /\ \E i \in OkIdx(p, "sendTransaction"), j \in OkIdx(p, "confirmTransaction") :
         /\ i < j
         /\ log[p][i].hash = h
         /\ log[p][j].hash = h
         /\ log[p][i].dest = SolanaDestination(req[p])

NeedsValidation(r) ==
    /\ cfg.enableApiKeyGating
    /\ GateNetwork(r) \in MAINNET_NETWORKS
    /\ Has(r.xApiKey)
    /\ Val(r.xApiKey) # ""

\* this step is the arrival of a request at handler p
Arrives(p) ==
    /\ calls' = calls + 1
    /\ \A q \in Procs \ {p} : pc'[q] = pc[q] /\ req'[q] = req[q] /\ log'[q] = log[q]

\* this step ends the validation request of handler p
ValidationEnded(p) == pc[p] = "mw_fetch" /\ pc'[p] # "mw_fetch"

\* a request whose key has a stored outcome younger than five minutes is
\* decided by that outcome without a validation request; any other request
\* that needs validation starts one
ArrivalRule(p) ==
    LET r == req'[p]
        k == Val(r.xApiKey)
    IN  NeedsValidation(r) =>
          IF Has(keyCache[k]) /\ now * 1000 < Val(keyCache[k]).expiresAt
          THEN LET valid == Val(keyCache[k]).valid
               IN  /\ IF valid
                      THEN /\ \E i \in 1..Len(log'[p]) : log'[p][i] = NextCalled
                           /\ resp'[p].op # "gate"
                      ELSE /\ pc'[p] = "done"
                           /\ resp'[p].op = "gate"
                           /\ resp'[p].status = 403
                   /\ Len(log'[p]) >= 1
                   /\ log'[p][1] = Validated("cache", IF valid THEN "valid" ELSE "invalid")
                   /\ \A i \in 1..Len(log'[p]) : log'[p][i].call # "fetch"
          ELSE /\ pc'[p] = "mw_fetch"
               /\ log'[p] = <<>>

\* the outcome of a validation request that returned is stored for five
\* minutes from now, a 2xx `valid: true` as valid and everything else as
\* invalid; a request that raised leaves the cache as it was
StoreRule(p) ==
    ValidationEnded(p) =>
        LET k     == Val(req[p].xApiKey)
            fetch == log'[p][Len(log[p]) + 1]
        IN  /\ fetch.call = "fetch"
            /\ IF fetch.dest = "raises"
               THEN keyCache' = keyCache
               ELSE keyCache' =
                      [keyCache EXCEPT ![k] =
                         Some([valid |-> fetch.dest = "valid",
                               expiresAt |-> now * 1000 + 5 * 60 * 1000])]

\* C39: an outcome obtained from the dashboard (valid, invalid, or a non-OK
\* response recorded as invalid) is stored with the key and decides every
\* request with that key that arrives less than 5 minutes after it was
\* stored, without a validation request; a request that arrives at or after
\* that instant, or with a key that has no stored outcome, starts a
\* validation request; a validation request that raised stores nothing, and
\* nothing else changes the cache.
C39_ValidationReusedForFiveMinutes ==
    [][ /\ (calls' = calls + 1) => \E p \in Procs : Arrives(p) /\ ArrivalRule(p)
        /\ \A p \in Procs : StoreRule(p)
        /\ (\A p \in Procs : ~ValidationEnded(p)) => keyCache' = keyCache ]_vars

\* a request was decided by an outcome stored by the other handler's
\* validation, in the last second of its five minutes
C39_Witness ==
    \E p, q \in Procs :
        /\ p # q
        /\ Idx(p, "cache") # {}
        /\ OkIdx(q, "fetch") # {}
        /\ req[q].xApiKey = req[p].xApiKey
        /\ Has(keyCache[Val(req[p].xApiKey)])
        /\ Val(keyCache[Val(req[p].xApiKey)]).expiresAt - DateNow(now) = 1000

(***************************************************************************)
(* C40: every invocation ends with one response.                           *)
(***************************************************************************)
\* one invocation of verifyPayment or of settlePayment, on any of their
\* inputs; every awaited call of the running handler eventually returns or
\* raises
NextServe ==
    \/ pc[Main] = "idle" /\ VerifyBegin(Main)
    \/ pc[Main] = "idle" /\ SettleBegin(Main)
    \/ VerifySteps(Main)
    \/ SettleSteps(Main)
    \/ \E l \in EvmLabels : Mine(l)

SpecServe ==
    /\ InitSettle
    /\ [][NextServe]_vars
    /\ WF_vars(VerifySteps(Main) \/ SettleSteps(Main))

\* the handler is between its first line and its response
Running(p) == pc[p] \notin {"idle", "done"}

\* a body with an isValid or success boolean under one of the handler's
\* status codes
StructuredResult(response) ==
    /\ response.op \in {"verify", "settle"}
    /\ response.ok \in BOOLEAN
    /\ response.status \in {200, 400, 500}

\* nothing was sent while the handler runs; exactly one body was sent when
\* it has ended
OneResponse(p) ==
    /\ Running(p) => resp[p] = NoResponse
    /\ pc[p] = "done" => StructuredResult(resp[p])

\* what was sent stays as sent until the next request arrives
ResponseKept(p) ==
    (pc[p] = "done" /\ calls' = calls) => (resp'[p] = resp[p] /\ pc'[p] = "done")

\* C40: every verify and every settle invocation whose awaited calls each
\* return or raise ends, and ends by sending exactly one response that
\* carries an isValid or success boolean: nothing is sent before the handler
\* ends, no invocation ends without a response (no exception leaves the
\* handler), and a response once sent is not followed by another.
C40_EveryInvocationAnswersOnce ==
    /\ [](\A p \in Procs : OneResponse(p))
    /\ [][\A p \in Procs : ResponseKept(p)]_vars
    /\ \A p \in Procs : Running(p) ~> (pc[p] = "done")

\* a settle invocation has been answered by its catch block after the wait
\* for the transfer's receipt raised
C40_Witness ==
    /\ SettleAnswered(Main)
    /\ \E i \in Idx(Main, "waitTransfer") : ~log[Main][i].ok
    /\ ~resp[Main].ok
    /\ resp[Main].status = 200

==========================================================================
